---- MODULE Spec2Model ----
(***************************************************************************)
(* Model of the sliding-window rate limiter of src/lib/rateLimiter.ts      *)
(* (class RateLimiter): the store of per-identifier window entries, the    *)
(* amortized global cleanup, checkRateLimit, reset and getStats, driven by *)
(* a non-decreasing millisecond clock (Date.now()).                        *)
(***************************************************************************)
EXTENDS Integers, Sequences, FiniteSets, TLC

\* ---------------------------------------------------------------- bounds
\* Quota per window (constructor parameter maxRequests; the singleton uses 10).
maxRequests == 2
\* The clock advances in steps of windowMs / TicksPerWindow milliseconds.
TicksPerWindow == 2
\* The clock runs from 0 to MaxTicks steps.
MaxTicks == 4
\* Total number of recorded checkRateLimit calls (length of the histories).
MaxCalls == 6

\* ------------------------------------------------------ program constants
windowMs == 60000
cleanupInterval == 60000

TickMs == windowMs \div TicksPerWindow
MaxClock == MaxTicks * TickMs
\* Client identifiers (keys of the store). A string is the sequence of its
\* characters.
Identifiers == {<<"a">>, <<"b">>}
\* Time that may pass between the two Date.now() reads of one checkRateLimit
\* call (in cleanup(), line 26, and in checkRateLimit, line 50).
Drift == {0, TickMs}

VARIABLES
  clock,              \* Date.now()
  store,              \* Map<string, RateLimitEntry>: a function on the stored keys
  lastGlobalCleanup,  \* time of the last global cleanup pass (or of construction)
  call,               \* the last operation: its kind, identifier, clock reads, returned value,
                      \* and the store as its cleanup pass left it (Void when no pass ran)
  log,                \* per identifier: the results of its checks since construction / its last reset
  passes              \* the times at which global cleanup passes ran

vars == <<clock, store, lastGlobalCleanup, call, log, passes>>

\* The value of a call that returns nothing (reset), or of no call yet.
Void == [void |-> TRUE]

\* ---------------------------------------------------------------- helpers
RECURSIVE SumLen(_, _)
SumLen(f, S) ==
  IF S = {} THEN 0
  ELSE LET k == CHOOSE x \in S : TRUE IN Len(f[k]) + SumLen(f, S \ {k})

SeqMin(s) == CHOOSE m \in {s[i] : i \in 1..Len(s)} : \A i \in 1..Len(s) : m <= s[i]

Max(x, y) == IF x >= y THEN x ELSE y

\* --------------------------------------------------------------- cleanup()
\* (variant: the interval test is dropped and every call runs a pass)
cleanupDue_always(now, lastPass) == TRUE

\* line 27: the pass is skipped while now - lastGlobalCleanup < cleanupInterval
cleanupDue(now, lastPass) == ~(now - lastPass < cleanupInterval)

\* (variant: a request exactly windowMs old is still valid)
validRequests_inclusive(requests, now) ==
  SelectSeq(requests, LAMBDA timestamp : now - timestamp <= windowMs)

\* lines 32-34: entry.requests.filter(timestamp => now - timestamp < windowMs)
validRequests(requests, now) == SelectSeq(requests, LAMBDA timestamp : now - timestamp < windowMs)

\* (variant: the pass deletes every entry, its requests valid or not)
cleanupStore_deleteAll(st, now) == [key \in {} |-> st[key]]

\* (variant: entries left empty are kept in the store)
cleanupStore_keepEmpty(st, now) ==
  [key \in DOMAIN st |-> [requests |-> validRequests(st[key].requests, now),
                           lastCleanup |-> now]]

\* lines 31-42: every entry is filtered; an entry left empty is deleted,
\* another one keeps its valid requests and gets lastCleanup = now
cleanupStore(st, now) ==
  LET kept == {key \in DOMAIN st : Len(validRequests(st[key].requests, now)) # 0}
  IN [key \in kept |-> [requests |-> validRequests(st[key].requests, now),
                         lastCleanup |-> now]]

\* ------------------------------------------------------- checkRateLimit()
\* (variant: a request exactly windowMs old is still counted)
filterWindow_inclusive(requests, now) ==
  LET windowStart == now - windowMs
  IN SelectSeq(requests, LAMBDA timestamp : timestamp >= windowStart)

\* (variant: fixed bucket, the whole window is cleared once its oldest request expires)
filterWindow_fixedBucket(requests, now) ==
  IF Len(requests) > 0 /\ requests[1] <= now - windowMs THEN <<>> ELSE requests

\* (variant: no per-call filtering, expiry is left to the global cleanup)
filterWindow_none(requests, now) == requests

\* line 59: entry.requests.filter(timestamp => timestamp > windowStart)
filterWindow(requests, now) ==
  LET windowStart == now - windowMs
  IN SelectSeq(requests, LAMBDA timestamp : timestamp > windowStart)

\* (variant: the admitted request is counted twice)
remainingOf_early(count) == Max(0, maxRequests - count - 1)

\* line 61
remainingOf(count) == Max(0, maxRequests - count)

\* (variant: off by one, <= for <)
allowedOf_offByOne(count) == count <= maxRequests

\* line 62
allowedOf(count) == count < maxRequests

\* (variant: the admitted request is put in front)
pushIfAllowed_unshift(requests, allowed, now) ==
  IF allowed THEN <<now>> \o requests ELSE requests

\* (variant: rejected requests are recorded too)
pushAlways(requests, allowed, now) == Append(requests, now)

\* lines 64-66
pushIfAllowed(requests, allowed, now) == IF allowed THEN Append(requests, now) ELSE requests

\* (variant: the newest request is taken for the oldest)
resetTimeOf_newest(requests, now) ==
  LET newestRequest == IF Len(requests) > 0 THEN requests[Len(requests)] ELSE now
  IN newestRequest + windowMs

\* lines 68-69
resetTimeOf(requests, now) ==
  LET oldestRequest == IF Len(requests) > 0 THEN requests[1] ELSE now
  IN oldestRequest + windowMs

\* (variant: the admitted request is not deducted)
returnedRemaining_noDecrement(allowed, remaining) == remaining

\* line 74
returnedRemaining(allowed, remaining) == IF allowed THEN remaining - 1 ELSE remaining

\* lines 47-77, cleanup() of lines 25-45 included, as a function of the
\* limiter's state: nowC is the Date.now() of cleanup(), now the Date.now()
\* of checkRateLimit. Gives the new store and lastGlobalCleanup, whether a
\* cleanup pass ran, the store as cleanup() left it, and the returned result.
limiterCheck(st, lastPass, nowC, now, identifier) ==
  LET ran == cleanupDue(nowC, lastPass)
      cleaned == IF ran THEN cleanupStore(st, nowC) ELSE st
      entry == IF identifier \in DOMAIN cleaned
               THEN cleaned[identifier]
               ELSE [requests |-> <<>>, lastCleanup |-> now]
      filtered == filterWindow(entry.requests, now)
      remaining == remainingOf(Len(filtered))
      allowed == allowedOf(Len(filtered))
      requests == pushIfAllowed(filtered, allowed, now)
  IN [ran |-> ran,
      cleaned |-> cleaned,
      lastGlobalCleanup |-> IF ran THEN nowC ELSE lastPass,
      store |-> [key \in DOMAIN cleaned \cup {identifier} |->
                   IF key = identifier
                   THEN [requests |-> requests, lastCleanup |-> entry.lastCleanup]
                   ELSE cleaned[key]],
      result |-> [allowed |-> allowed,
                  limit |-> maxRequests,
                  remaining |-> returnedRemaining(allowed, remaining),
                  resetTime |-> resetTimeOf(requests, now)]]

\* RateLimiter.checkRateLimit called at clock; d is the time between the
\* Date.now() of cleanup() and the Date.now() of checkRateLimit.
checkRateLimit(identifier, d) ==
  LET nowC == clock
      now == clock + d
      c == limiterCheck(store, lastGlobalCleanup, nowC, now, identifier)
  IN /\ now <= MaxClock
     /\ SumLen(log, Identifiers) < MaxCalls
     /\ clock' = now
     /\ lastGlobalCleanup' = c.lastGlobalCleanup
     /\ passes' = IF c.ran THEN Append(passes, nowC) ELSE passes
     /\ store' = c.store
     /\ log' = [log EXCEPT ![identifier] = Append(@, [now |-> now] @@ c.result)]
     /\ call' = [op |-> "check", id |-> identifier, nowC |-> nowC, now |-> now, ran |-> c.ran,
                 afterCleanup |-> IF c.ran THEN c.cleaned ELSE Void, returned |-> c.result]

\* (variant: the whole store is cleared)
reset_clearsStore(identifier) ==
  /\ store' = <<>>
  /\ log' = [log EXCEPT ![identifier] = <<>>]
  /\ call' = [op |-> "reset", id |-> identifier, nowC |-> clock, now |-> clock, ran |-> FALSE,
              afterCleanup |-> Void, returned |-> Void]
  /\ UNCHANGED <<clock, lastGlobalCleanup, passes>>

\* (variant: the entry is left in the store)
reset_keepsEntry(identifier) ==
  /\ log' = [log EXCEPT ![identifier] = <<>>]
  /\ call' = [op |-> "reset", id |-> identifier, nowC |-> clock, now |-> clock, ran |-> FALSE,
              afterCleanup |-> Void, returned |-> Void]
  /\ UNCHANGED <<clock, store, lastGlobalCleanup, passes>>

\* lines 79-81
reset(identifier) ==
  /\ store' = [key \in DOMAIN store \ {identifier} |-> store[key]]
  /\ log' = [log EXCEPT ![identifier] = <<>>]
  /\ call' = [op |-> "reset", id |-> identifier, nowC |-> clock, now |-> clock, ran |-> FALSE,
              afterCleanup |-> Void, returned |-> Void]
  /\ UNCHANGED <<clock, lastGlobalCleanup, passes>>

\* lines 83-93
totalRequestsOf(st) == SumLen([key \in DOMAIN st |-> st[key].requests], DOMAIN st)

getStats ==
  /\ call' = [op |-> "getStats", id |-> <<>>, nowC |-> clock, now |-> clock, ran |-> FALSE,
              afterCleanup |-> Void,
              returned |-> [totalKeys |-> Cardinality(DOMAIN store),
                            totalRequests |-> totalRequestsOf(store)]]
  /\ UNCHANGED <<clock, store, lastGlobalCleanup, log, passes>>

\* Time passes between operations.
Tick ==
  /\ clock + TickMs <= MaxClock
  /\ clock' = clock + TickMs
  /\ UNCHANGED <<store, lastGlobalCleanup, call, log, passes>>

\* lines 14-23 and 96: the state after new RateLimiter(...), at time 0
Init ==
  /\ clock = 0
  /\ store = <<>>
  /\ lastGlobalCleanup = 0
  /\ call = [op |-> "none", id |-> <<>>, nowC |-> 0, now |-> 0, ran |-> FALSE,
             afterCleanup |-> Void, returned |-> Void]
  /\ log = [identifier \in Identifiers |-> <<>>]
  /\ passes = <<>>

Next ==
  \/ \E identifier \in Identifiers, d \in Drift : checkRateLimit(identifier, d)
  \/ \E identifier \in Identifiers : reset(identifier)
  \/ getStats
  \/ Tick

Spec == Init /\ [][Next]_vars

\* ------------------------------------------------------------ getClientIP
\* Longest header value drawn for x-forwarded-for.
MaxHeaderLen == 3

\* All strings of at most n characters of an alphabet.
StringsUpTo(alphabet, n) == UNION {[1..k -> alphabet] : k \in 0..n}

\* String.prototype.trim
RECURSIVE trimStart(_)
trimStart(s) == IF Len(s) > 0 /\ s[1] = " " THEN trimStart(Tail(s)) ELSE s

RECURSIVE trimEnd(_)
trimEnd(s) == IF Len(s) > 0 /\ s[Len(s)] = " " THEN trimEnd(SubSeq(s, 1, Len(s) - 1)) ELSE s

trim(s) == trimEnd(trimStart(s))

\* String.prototype.split(','): the sequence of the comma-separated entries
RECURSIVE split(_)
split(s) ==
  IF \E i \in 1..Len(s) : s[i] = ","
  THEN LET i == CHOOSE i \in 1..Len(s) : s[i] = "," /\ \A j \in 1..(i - 1) : s[j] # ","
       IN <<SubSeq(s, 1, i - 1)>> \o split(SubSeq(s, i + 1, Len(s)))
  ELSE <<s>>

\* A request's headers are a function from the names of the headers it
\* carries to their values. if (headers.get(name)): the header is there and
\* its value is not the empty string.
truthy(headers, name) == name \in DOMAIN headers /\ headers[name] # <<>>

\* (variant: x-real-ip is looked at before x-forwarded-for)
getClientIP_realIpFirst(headers) ==
  IF truthy(headers, "x-real-ip") THEN trim(headers["x-real-ip"])
  ELSE IF truthy(headers, "x-forwarded-for") THEN trim(split(headers["x-forwarded-for"])[1])
  ELSE IF truthy(headers, "cf-connecting-ip") THEN trim(headers["cf-connecting-ip"])
  ELSE <<"127.0.0.1">>

\* rateLimiter.ts lines 113-132
getClientIP(headers) ==
  IF truthy(headers, "x-forwarded-for") THEN trim(split(headers["x-forwarded-for"])[1])
  ELSE IF truthy(headers, "x-real-ip") THEN trim(headers["x-real-ip"])
  ELSE IF truthy(headers, "cf-connecting-ip") THEN trim(headers["cf-connecting-ip"])
  ELSE <<"127.0.0.1">>

\* The header values drawn for getClientIP.
ForwardedValues == StringsUpTo({"x", " ", ","}, MaxHeaderLen)
RealIpValues == {<<>>, <<"r">>, <<"r", " ">>}
ConnectingIpValues == {<<>>, <<" ", "c">>}

\* The partial functions from header names to the values drawn for them.
HeadersOf(values) ==
  UNION {{h \in [names -> UNION {values[n] : n \in names}] :
            \A n \in names : h[n] \in values[n]} : names \in SUBSET DOMAIN values}

IpHeaders ==
  HeadersOf([n \in {"x-forwarded-for", "x-real-ip", "cf-connecting-ip"} |->
               IF n = "x-forwarded-for" THEN ForwardedValues
               ELSE IF n = "x-real-ip" THEN RealIpValues ELSE ConnectingIpValues])

\* A call of getClientIP on a request with the given headers.
getClientIPCall(headers) ==
  /\ call' = [op |-> "getClientIP", headers |-> headers, returned |-> getClientIP(headers)]
  /\ UNCHANGED <<clock, store, lastGlobalCleanup, log, passes>>

\* One call is made on one drawn request.
ClientIPNext == call.op = "none" /\ \E headers \in IpHeaders : getClientIPCall(headers)

ClientIPSpec == Init /\ [][ClientIPNext]_vars

\* -------------------------------------------------------- priceCalculator
\* config/stations.ts lines 4-47
stations ==
  << [id |-> "jita-iv-moon-4", name |-> "Jita IV - Moon 4 - Caldari Navy Assembly Plant",
      system |-> "Jita", systemId |-> 30000142],
     [id |-> "saminer", name |-> "Saminer - Stain is for Stain People",
      system |-> "Saminer", systemId |-> 30001721],
     [id |-> "t-nnjz", name |-> "T-NNJZ - meow meow",
      system |-> "T-NNJZ", systemId |-> 30001959],
     [id |-> "z-xmuc", name |-> "Z-XMUC - Ends of Invention",
      system |-> "Z-XMUC", systemId |-> 30001929],
     [id |-> "o-fthe", name |-> "O-FTHE - Good Sax Nightmare Dealership",
      system |-> "O-FTHE", systemId |-> 30001938],
     [id |-> "y-4u62", name |-> "Y-4U62 - Neural-Link Giga Factory",
      system |-> "Y-4U62", systemId |-> 30001932],
     [id |-> "37s-ko-vi-moon-14", name |-> "37S-KO VI - Moon 14 - True Creations Assembly Plant",
      system |-> "37S-KO", systemId |-> 30001868] >>

\* config/stations.ts lines 49-113: priceMatrix[from][to], ISK per m3
priceMatrix ==
  "jita-iv-moon-4" :>
    ("jita-iv-moon-4" :> 0 @@
     "saminer" :> 300 @@
     "t-nnjz" :> 650 @@
     "z-xmuc" :> 650 @@
     "o-fthe" :> 650 @@
     "y-4u62" :> 650 @@
     "37s-ko-vi" :> 650) @@
  "saminer" :>
    ("jita-iv-moon-4" :> 300 @@
     "saminer" :> 0 @@
     "t-nnjz" :> 650 @@
     "z-xmuc" :> 650 @@
     "o-fthe" :> 650 @@
     "y-4u62" :> 650 @@
     "37s-ko-vi" :> 650) @@
  "t-nnjz" :>
    ("jita-iv-moon-4" :> 650 @@
     "saminer" :> 650 @@
     "t-nnjz" :> 650 @@
     "z-xmuc" :> 650 @@
     "o-fthe" :> 650 @@
     "y-4u62" :> 650 @@
     "37s-ko-vi" :> 650) @@
  "z-xmuc" :>
    ("jita-iv-moon-4" :> 650 @@
     "saminer" :> 650 @@
     "t-nnjz" :> 650 @@
     "z-xmuc" :> 650 @@
     "o-fthe" :> 650 @@
     "y-4u62" :> 650 @@
     "37s-ko-vi" :> 650) @@
  "o-fthe" :>
    ("jita-iv-moon-4" :> 650 @@
     "saminer" :> 650 @@
     "t-nnjz" :> 650 @@
     "z-xmuc" :> 650 @@
     "o-fthe" :> 650 @@
     "y-4u62" :> 650 @@
     "37s-ko-vi" :> 0) @@
  "y-4u62" :>
    ("jita-iv-moon-4" :> 650 @@
     "saminer" :> 650 @@
     "t-nnjz" :> 650 @@
     "z-xmuc" :> 650 @@
     "o-fthe" :> 650 @@
     "y-4u62" :> 650 @@
     "37s-ko-vi" :> 650) @@
  "37s-ko-vi" :>
    ("jita-iv-moon-4" :> 650 @@
     "saminer" :> 650 @@
     "t-nnjz" :> 650 @@
     "z-xmuc" :> 650 @@
     "o-fthe" :> 650 @@
     "y-4u62" :> 650 @@
     "37s-ko-vi" :> 650)

\* config/stations.ts line 115, in m3
maxVolume == 345000
\* config/stations.ts line 116: 3 000 000 000 ISK. Collateral is counted in
\* units of 100 ISK, so that 1% of it is a whole number of ISK.
maxCollateral == 30000000
\* config/stations.ts line 117: 0.01, which is 1 ISK of fee for each unit
\* (100 ISK) of collateral.
collateralPercentage == 1

\* A thrown PriceCalculationError (lines 4-9), and a returned value.
PriceCalculationError(message) == [ok |-> FALSE, error |-> "PriceCalculationError", message |-> message]
Returned(value) == [ok |-> TRUE, value |-> value]

\* (variant: an id the table does not list is taken for its first station)
findStation_any(stationId) ==
  IF \E i \in 1..Len(stations) : stations[i].id = stationId
  THEN CHOOSE i \in 1..Len(stations) :
         stations[i].id = stationId /\ \A j \in 1..(i - 1) : stations[j].id # stationId
  ELSE 1

\* stationsConfig.stations.find(s => s.id === stationId): the index of the
\* first station with that id, 0 when there is none
findStation(stationId) ==
  IF \E i \in 1..Len(stations) : stations[i].id = stationId
  THEN CHOOSE i \in 1..Len(stations) :
         stations[i].id = stationId /\ \A j \in 1..(i - 1) : stations[j].id # stationId
  ELSE 0

\* stationsConfig.priceMatrix[from]?.[to] is defined
hasRate(from, to) == from \in DOMAIN priceMatrix /\ to \in DOMAIN priceMatrix[from]

\* (variant: the largest volume is refused)
volumeOutOfRange_excludesMax(volume) == volume <= 0 \/ volume >= maxVolume

\* line 16
volumeOutOfRange(volume) == volume <= 0 \/ volume > maxVolume

\* line 20
collateralOutOfRange(collateral) == collateral < 0 \/ collateral > maxCollateral

\* lines 11-39: the message of the error it throws, "" when it returns
validateCalculationRequest(request) ==
  IF request.pickupStationId = "" \/ request.destinationStationId = ""
    THEN "Pickup and destination stations are required"
  ELSE IF volumeOutOfRange(request.volume)
    THEN "Volume must be between 0 and 345,000 m3"
  ELSE IF collateralOutOfRange(request.collateral)
    THEN "Collateral must be between 0 and 3,000,000,000 ISK"
  ELSE IF findStation(request.pickupStationId) = 0
    THEN "Invalid pickup station"
  ELSE IF findStation(request.destinationStationId) = 0
    THEN "Invalid destination station"
  ELSE IF ~hasRate(request.pickupStationId, request.destinationStationId)
    THEN "Price route not available"
  ELSE ""

\* (variant: the collateral fee is left out of the total)
totalPriceOf_withoutFee(basePrice, collateralFee) == basePrice

\* line 50
totalPriceOf(basePrice, collateralFee) == basePrice + collateralFee

\* lines 41-61
calculatePrice(request) ==
  LET thrown == validateCalculationRequest(request)
      pickupStation == stations[findStation(request.pickupStationId)]
      destinationStation == stations[findStation(request.destinationStationId)]
      pricePerM3 == priceMatrix[request.pickupStationId][request.destinationStationId]
      basePrice == pricePerM3 * request.volume
      collateralFee == request.collateral * collateralPercentage
      totalPrice == totalPriceOf(basePrice, collateralFee)
  IN IF thrown # ""
     THEN PriceCalculationError(thrown)
     ELSE Returned([basePrice |-> basePrice,
                    collateralFee |-> collateralFee,
                    totalPrice |-> totalPrice,
                    pickupStation |-> pickupStation.name,
                    destinationStation |-> destinationStation.name,
                    volume |-> request.volume,
                    collateral |-> request.collateral])

\* The requests drawn for calculatePrice: every listed station, an unknown
\* one, a missing one and a key of the price matrix that is no station's
\* id; volumes and collaterals at and around the limits.
StationIds == {stations[i].id : i \in 1..Len(stations)} \cup {"nowhere", "", "37s-ko-vi"}
Volumes == {0 - 1, 0, 1, 1000, maxVolume, maxVolume + 1}
Collaterals == {0 - 1, 0, 10000, maxCollateral, maxCollateral + 1}
PriceRequests ==
  [pickupStationId : StationIds, destinationStationId : StationIds,
   volume : Volumes, collateral : Collaterals]

\* A call of calculatePrice.
calculatePriceCall(request) ==
  /\ call' = [op |-> "calculatePrice", request |-> request, returned |-> calculatePrice(request)]
  /\ UNCHANGED <<clock, store, lastGlobalCleanup, log, passes>>

\* One call is made on one drawn request.
PriceNext == call.op = "none" /\ \E request \in PriceRequests : calculatePriceCall(request)

PriceSpec == Init /\ [][PriceNext]_vars

\* ------------------------------------------------- exported checkRateLimit
\* An environment variable: unset (undefined), or set to a string.
Unset == [set |-> FALSE, value |-> <<>>]
Set(value) == [set |-> TRUE, value |-> value]

\* Array.prototype.includes
includes(list, x) == \E i \in DOMAIN list : list[i] = x

\* rateLimiter.ts line 99:
\* process.env.NO_RATE_LIMIT_IPS?.split(',').map(ip => ip.trim()) || []
noRateLimitIpsOf(env) ==
  IF env.set THEN [i \in DOMAIN split(env.value) |-> trim(split(env.value)[i])] ELSE <<>>

\* rateLimiter.ts lines 102-107 (variant: remaining counts down from the
\* limiter's quota)
syntheticResult_fromQuota(now) ==
  [allowed |-> TRUE, limit |-> maxRequests, remaining |-> maxRequests - 1,
   resetTime |-> now + 60000]

\* rateLimiter.ts lines 102-107: the result returned for an allow-listed ip
syntheticResult(now) ==
  [allowed |-> TRUE, limit |-> 10, remaining |-> 9, resetTime |-> now + 60000]

\* rateLimiter.ts lines 98-111 (variant: the request of an allow-listed ip
\* is counted by the limiter all the same)
exportedCheckRateLimit_counted(st, lastPass, nowC, now, ip, env) ==
  IF includes(noRateLimitIpsOf(env), ip)
  THEN [limiterCheck(st, lastPass, nowC, now, ip) EXCEPT !.result = syntheticResult(nowC)]
         @@ [bypassed |-> TRUE]
  ELSE [bypassed |-> FALSE] @@ limiterCheck(st, lastPass, nowC, now, ip)

\* rateLimiter.ts lines 98-111, the exported checkRateLimit(ip): what it
\* returns and what it leaves in the limiter. An allow-listed ip reads the
\* clock once (line 106) and never enters the limiter; any other ip is
\* handed to rateLimiter.checkRateLimit.
exportedCheckRateLimit(st, lastPass, nowC, now, ip, env) ==
  IF includes(noRateLimitIpsOf(env), ip)
  THEN [bypassed |-> TRUE, ran |-> FALSE, cleaned |-> st, lastGlobalCleanup |-> lastPass,
        store |-> st, result |-> syntheticResult(nowC)]
  ELSE [bypassed |-> FALSE] @@ limiterCheck(st, lastPass, nowC, now, ip)

\* -------------------------------------------------------------- middleware
\* String.prototype.startsWith
startsWith(s, prefix) == Len(prefix) <= Len(s) /\ SubSeq(s, 1, Len(prefix)) = prefix

\* Number.prototype.toString of an integer: its decimal digits, with a sign
\* when it is negative.
RECURSIVE digitsOf(_)
digitsOf(n) ==
  LET digit == <<"0", "1", "2", "3", "4", "5", "6", "7", "8", "9">>[(n % 10) + 1]
  IN IF n < 10 THEN digit ELSE digitsOf(n \div 10) \o digit

toString(n) == IF n < 0 THEN "-" \o digitsOf(0 - n) ELSE digitsOf(n)

\* Math.ceil(ms / 1000): \div rounds down, so the ceiling is minus the floor
\* of the opposite; Math.ceil(-0.5) is -0, which prints as "0".
ceilSeconds(ms) == 0 - ((0 - ms) \div 1000)

\* headers.get(name): null when the request does not carry the header
get(headers, name) == IF name \in DOMAIN headers THEN headers[name] ELSE <<>>

\* The paths are sequences of pieces, so that one path starts with another
\* as the strings do.
ApiPrefix == <<"/api">>
PublicPrefix == <<"/api", "/public">>

\* part_006 lines 10-25
tooManyRequests(rateLimitResult, headerNow) ==
  [status |-> 429,
   body |-> [error |-> "Too Many Requests",
             message |-> "Rate limit exceeded. Please try again later.",
             statusCode |-> 429],
   headers |-> [name \in {"X-RateLimit-Limit", "X-RateLimit-Remaining",
                          "X-RateLimit-Reset", "Retry-After"} |->
                  CASE name = "X-RateLimit-Limit" -> toString(rateLimitResult.limit)
                    [] name = "X-RateLimit-Remaining" -> toString(rateLimitResult.remaining)
                    [] name = "X-RateLimit-Reset" -> toString(rateLimitResult.resetTime)
                    [] name = "Retry-After" ->
                         toString(ceilSeconds(rateLimitResult.resetTime - headerNow))]]

\* NextResponse.next(): the request goes on to its route
next == [status |-> 200, body |-> [next |-> TRUE], headers |-> <<>>]

\* part_006 lines 28-33 (variant: the remaining count is not stamped)
nextWithRateLimit_noRemaining(rateLimitResult) ==
  [next EXCEPT !.headers =
     [name \in {"X-RateLimit-Limit", "X-RateLimit-Reset"} |->
        CASE name = "X-RateLimit-Limit" -> toString(rateLimitResult.limit)
          [] name = "X-RateLimit-Reset" -> toString(rateLimitResult.resetTime)]]

\* part_006 lines 28-33
nextWithRateLimit(rateLimitResult) ==
  [next EXCEPT !.headers =
     [name \in {"X-RateLimit-Limit", "X-RateLimit-Remaining", "X-RateLimit-Reset"} |->
        CASE name = "X-RateLimit-Limit" -> toString(rateLimitResult.limit)
          [] name = "X-RateLimit-Remaining" -> toString(rateLimitResult.remaining)
          [] name = "X-RateLimit-Reset" -> toString(rateLimitResult.resetTime)]]

\* part_006 line 45
forbidden == [status |-> 403, body |-> [text |-> "Forbidden"], headers |-> <<>>]

\* part_006 line 39: process.env.ALLOWED_ORIGINS?.split(',') || []
allowedOriginsOf(env) == IF env.set THEN split(env.value) ELSE <<>>

\* part_006 line 41: origin && allowedOrigins.includes(origin)
isAllowedOrigin(origin, allowedOrigins) == origin # <<>> /\ includes(allowedOrigins, origin)

\* part_006 line 42:
\* referer && allowedOrigins.some(allowed => referer.startsWith(allowed))
isAllowedReferer(referer, allowedOrigins) ==
  referer # <<>> /\ \E i \in DOMAIN allowedOrigins : startsWith(referer, allowedOrigins[i])

\* part_006 lines 37-44: the request passes the origin check
originCheck(headers, env) ==
  LET allowedOrigins == allowedOriginsOf(env)
  IN isAllowedOrigin(get(headers, "origin"), allowedOrigins)
       \/ isAllowedReferer(get(headers, "referer"), allowedOrigins)

\* ------------------------------------------------------------ the handlers
\* priceCalculator lines 78-91 (variant: of several stations in the system
\* the first is returned)
resolveStationIn_firstOfMany(table, systemId) ==
  LET stationsInSystem == SelectSeq(table, LAMBDA s : s.systemId = systemId)
  IN IF Len(stationsInSystem) = 0
     THEN PriceCalculationError("No stations found in system with ID " \o toString(systemId))
     ELSE Returned(stationsInSystem[1].id)

\* priceCalculator lines 78-91, with stationsConfig.stations being table
resolveStationIn(table, systemId) ==
  LET stationsInSystem == SelectSeq(table, LAMBDA s : s.systemId = systemId)
  IN IF Len(stationsInSystem) = 0
     THEN PriceCalculationError("No stations found in system with ID " \o toString(systemId))
     ELSE IF Len(stationsInSystem) > 1
     THEN PriceCalculationError("Multiple stations found in system "
                                  \o stationsInSystem[1].system
                                  \o ". Please specify station ID.")
     ELSE Returned(stationsInSystem[1].id)

\* priceCalculator lines 78-91, resolveStationFromSystemId(systemId)
resolveStationFromSystemId(systemId) == resolveStationIn(stations, systemId)

\* priceCalculator lines 93-119 (variant: a system id is looked at before
\* the station id)
resolvePublicCalculateRequest_systemFirst(request) ==
  LET pickup ==
        IF request.pickupSystemId # 0
        THEN resolveStationFromSystemId(request.pickupSystemId)
        ELSE IF request.pickupStationId # "" THEN Returned(request.pickupStationId)
        ELSE PriceCalculationError("Either pickupStationId or pickupSystemId is required")
      destination ==
        IF request.destinationSystemId # 0
        THEN resolveStationFromSystemId(request.destinationSystemId)
        ELSE IF request.destinationStationId # ""
        THEN Returned(request.destinationStationId)
        ELSE PriceCalculationError(
               "Either destinationStationId or destinationSystemId is required")
  IN IF ~pickup.ok THEN pickup
     ELSE IF ~destination.ok THEN destination
     ELSE Returned([pickupStationId |-> pickup.value,
                    destinationStationId |-> destination.value,
                    volume |-> request.volume,
                    collateral |-> request.collateral])

\* priceCalculator lines 93-119. A field the body does not carry reads as ""
\* (a station id) or 0 (a system id), which the code treats as it treats a
\* missing one.
resolvePublicCalculateRequest(request) ==
  LET pickup ==
        IF request.pickupStationId # "" THEN Returned(request.pickupStationId)
        ELSE IF request.pickupSystemId # 0
        THEN resolveStationFromSystemId(request.pickupSystemId)
        ELSE PriceCalculationError("Either pickupStationId or pickupSystemId is required")
      destination ==
        IF request.destinationStationId # "" THEN Returned(request.destinationStationId)
        ELSE IF request.destinationSystemId # 0
        THEN resolveStationFromSystemId(request.destinationSystemId)
        ELSE PriceCalculationError(
               "Either destinationStationId or destinationSystemId is required")
  IN IF ~pickup.ok THEN pickup
     ELSE IF ~destination.ok THEN destination
     ELSE Returned([pickupStationId |-> pickup.value,
                    destinationStationId |-> destination.value,
                    volume |-> request.volume,
                    collateral |-> request.collateral])

\* part_005 lines 5-9
corsHeaders ==
  [name \in {"Access-Control-Allow-Origin", "Access-Control-Allow-Methods",
             "Access-Control-Allow-Headers"} |->
     CASE name = "Access-Control-Allow-Origin" -> "*"
       [] name = "Access-Control-Allow-Methods" -> "POST, OPTIONS"
       [] name = "Access-Control-Allow-Headers" -> "Content-Type"]

\* An error that is not a PriceCalculationError is thrown.
Thrown(error, message) == [ok |-> FALSE, error |-> error, message |-> message]

\* Two bodies that are no request: text that is not JSON, and the JSON null.
MalformedBody == [malformed |-> TRUE]
NullBody == [null |-> TRUE]

\* await request.json(): part_005 line 28, calculate-price/route.ts line 7
json(body) ==
  IF body = MalformedBody
  THEN Thrown("SyntaxError", "Unexpected token in JSON at position 0")
  ELSE Returned(body)

\* Reading a field of null: what resolvePublicCalculateRequest (line 97) and
\* validateCalculationRequest (line 12) do first with the JSON null.
nullRead == Thrown("TypeError", "Cannot read properties of null (reading 'pickupStationId')")

\* (variant: every error is answered as a validation error)
answerOf_all400(outcome, headers) ==
  IF outcome.ok
  THEN [status |-> 200, body |-> outcome.value, headers |-> headers]
  ELSE [status |-> 400,
        body |-> [error |-> "Validation Error", message |-> outcome.message,
                  statusCode |-> 400],
        headers |-> headers]

\* The answer of a calculation handler to what its try block returned or
\* threw: part_005 lines 33-55, calculate-price/route.ts lines 11-33.
answerOf(outcome, headers) ==
  IF outcome.ok
  THEN [status |-> 200, body |-> outcome.value, headers |-> headers]
  ELSE IF outcome.error = "PriceCalculationError"
  THEN [status |-> 400,
        body |-> [error |-> "Validation Error", message |-> outcome.message,
                  statusCode |-> 400],
        headers |-> headers]
  ELSE [status |-> 500,
        body |-> [error |-> "Internal Server Error",
                  message |-> "An unexpected error occurred while calculating the price",
                  statusCode |-> 500],
        headers |-> headers]

\* part_005 lines 26-57, POST /api/public/calculate-price: the calls of
\* calculatePrice it makes, what its try block returned or threw, and its
\* answer.
publicPOST(body) ==
  LET parsed == json(body)
      resolvedRequest == IF ~parsed.ok THEN parsed
                         ELSE IF parsed.value = NullBody THEN nullRead
                         ELSE resolvePublicCalculateRequest(parsed.value)
      result == IF resolvedRequest.ok THEN calculatePrice(resolvedRequest.value)
                ELSE resolvedRequest
  IN [calculated |-> IF resolvedRequest.ok THEN <<resolvedRequest.value>> ELSE <<>>,
      outcome |-> result,
      response |-> answerOf(result, corsHeaders)]

\* calculate-price/route.ts lines 5-35, POST /api/calculate-price
internalPOST(body) ==
  LET parsed == json(body)
      result == IF ~parsed.ok THEN parsed
                ELSE IF parsed.value = NullBody THEN nullRead
                ELSE calculatePrice(parsed.value)
  IN [calculated |-> IF parsed.ok THEN <<parsed.value>> ELSE <<>>,
      outcome |-> result,
      response |-> answerOf(result, <<>>)]

\* ------------------------------------------------ resolving a public request
\* The station tables drawn for resolveStationFromSystemId: the configured
\* one, in which every system has one station, and the one an edit of
\* config/stations.ts gives by listing a second station in Jita.
StationTables ==
  {stations,
   Append(stations, [id |-> "jita-iv-moon-5", name |-> "Jita IV - Moon 5",
                     system |-> "Jita", systemId |-> 30000142])}

\* The system ids drawn: those of the configured stations, none, and two
\* no station is in.
SystemIds == {stations[i].systemId : i \in 1..Len(stations)} \cup {0, 1, 30000143}

\* The bodies drawn for resolvePublicCalculateRequest: on each side a
\* listed station id, an unlisted one or none, with the id of a system that
\* has a station, of one that has none, or none.
PublicBodies ==
  [pickupStationId : {"", "jita-iv-moon-4", "nowhere"},
   pickupSystemId : {0, 30001721, 1},
   destinationStationId : {"", "saminer", "nowhere"},
   destinationSystemId : {0, 30000142, 1},
   volume : {0, 1000},
   collateral : {10000}]

\* A call of resolveStationFromSystemId.
resolveStationCall(table, systemId) ==
  /\ call' = [op |-> "resolveStationFromSystemId", table |-> table, systemId |-> systemId,
              returned |-> resolveStationIn(table, systemId)]
  /\ UNCHANGED <<clock, store, lastGlobalCleanup, log, passes>>

\* A call of resolvePublicCalculateRequest.
resolvePublicCall(request) ==
  /\ call' = [op |-> "resolvePublicCalculateRequest", request |-> request,
              returned |-> resolvePublicCalculateRequest(request)]
  /\ UNCHANGED <<clock, store, lastGlobalCleanup, log, passes>>

\* One call is made on one drawn input.
ResolveNext ==
  \/ call.op = "none" /\ \E table \in StationTables, systemId \in SystemIds :
                           resolveStationCall(table, systemId)
  \/ call.op = "none" /\ \E request \in PublicBodies : resolvePublicCall(request)

ResolveSpec == Init /\ [][ResolveNext]_vars

\* ------------------------------------------------- the calculation handlers
\* The bodies drawn for the two POST handlers.
HandlerBodies == PublicBodies \cup {MalformedBody, NullBody}

\* A request with the body reaches the POST handler of the public or of the
\* internal route.
POST(handler, body) ==
  /\ \E h \in {IF handler = "public" THEN publicPOST(body) ELSE internalPOST(body)} :
       call' = [op |-> "POST", handler |-> handler, body |-> body,
                calculated |-> h.calculated, outcome |-> h.outcome,
                returned |-> h.response]
  /\ UNCHANGED <<clock, store, lastGlobalCleanup, log, passes>>

\* One request is handled.
HandlerNext ==
  call.op = "none" /\ \E handler \in {"public", "internal"}, body \in HandlerBodies :
                        POST(handler, body)

HandlerSpec == Init /\ [][HandlerNext]_vars

\* ----------------------------------------------------------------- the gate
\* part_006 lines 9-33: the answer to a public request whose check was c
rateLimited(clientIP, c, headerNow) ==
  [clientIP |-> clientIP, checks |-> <<c>>, originChecked |-> FALSE,
   lastGlobalCleanup |-> c.lastGlobalCleanup, store |-> c.store,
   response |-> IF ~c.result.allowed
                THEN tooManyRequests(c.result, headerNow)
                ELSE nextWithRateLimit(c.result)]

\* part_006 lines 4-50 (variant: every API path is rate-limited)
middleware_limitsEveryApiPath(st, lastPass, nowC, now, headerNow, request, env) ==
  IF startsWith(request.pathname, ApiPrefix)
  THEN rateLimited(getClientIP(request.headers),
                   exportedCheckRateLimit(st, lastPass, nowC, now,
                                          getClientIP(request.headers),
                                          env.NO_RATE_LIMIT_IPS),
                   headerNow)
  ELSE [clientIP |-> <<>>, checks |-> <<>>, originChecked |-> FALSE,
        lastGlobalCleanup |-> lastPass, store |-> st, response |-> next]

\* part_006 lines 4-50, middleware(request): the response it returns, the
\* checks it makes and what it leaves in the limiter. nowC and now are the
\* two clock reads of rateLimiter.checkRateLimit, headerNow the read of
\* line 22, made when the request is rejected.
middleware(st, lastPass, nowC, now, headerNow, request, env) ==
  LET untouched == [lastGlobalCleanup |-> lastPass, store |-> st]
  IN IF startsWith(request.pathname, PublicPrefix)
     THEN rateLimited(getClientIP(request.headers),
                      exportedCheckRateLimit(st, lastPass, nowC, now,
                                             getClientIP(request.headers),
                                             env.NO_RATE_LIMIT_IPS),
                      headerNow)
     ELSE IF startsWith(request.pathname, ApiPrefix)
               /\ ~startsWith(request.pathname, PublicPrefix)
     THEN [clientIP |-> <<>>, checks |-> <<>>, originChecked |-> TRUE,
           response |-> IF ~originCheck(request.headers, env.ALLOWED_ORIGINS)
                        THEN forbidden ELSE next] @@ untouched
     ELSE [clientIP |-> <<>>, checks |-> <<>>, originChecked |-> FALSE,
           response |-> next] @@ untouched

\* part_006 lines 52-54: matcher '/api/:path*'
matcher(pathname) == startsWith(pathname, ApiPrefix)

\* The bodies, the headers and the requests drawn for the gate.
QuoteBody ==
  [pickupStationId |-> "jita-iv-moon-4", pickupSystemId |-> 0,
   destinationStationId |-> "saminer", destinationSystemId |-> 0,
   volume |-> 1000, collateral |-> 10000]
GateBodies == {QuoteBody, [QuoteBody EXCEPT !.volume = 0]}

PublicCalculatePath == <<"/api", "/public", "/calculate-price">>
CalculatePath == <<"/api", "/calculate-price">>
PagePath == <<"/about">>

\* "A" and "B" stand for two origins of the site, "E" for a foreign one.
OriginHeaders ==
  HeadersOf([n \in {"origin", "referer"} |->
               IF n = "origin" THEN {<<>>, <<"A">>, <<"B">>, <<"A", "x">>, <<"E">>}
               ELSE {<<>>, <<"A">>, <<"A", "/", "p">>, <<"E", "/", "p">>}])

\* The requests drawn for the origin check, and the values of
\* process.env.ALLOWED_ORIGINS they meet.
OriginRequests == [pathname : {CalculatePath}, headers : OriginHeaders, body : GateBodies]

OriginEnvs ==
  [NO_RATE_LIMIT_IPS : {Unset},
   ALLOWED_ORIGINS : {Unset, Set(<<>>), Set(<<"A">>), Set(<<"A", ",", "B">>),
                      Set(<<"B", ",">>)}]

\* The requests drawn for the gate with a limiter in use: public ones of two
\* clients, one the origin check lets through when the site's origins are
\* allow-listed, one it does not, and one for a page.
GateRequests ==
  [pathname : {PublicCalculatePath},
   headers : {[n \in {"x-forwarded-for"} |-> <<"a">>]},
   body : GateBodies]
  \cup {[pathname |-> PublicCalculatePath,
         headers |-> [n \in {"x-forwarded-for"} |-> <<"b", ",", "x">>],
         body |-> QuoteBody],
        [pathname |-> CalculatePath, headers |-> [n \in {"origin"} |-> <<"B">>],
         body |-> QuoteBody],
        [pathname |-> CalculatePath, headers |-> [n \in {"referer"} |-> <<"E", "/", "p">>],
         body |-> [QuoteBody EXCEPT !.volume = 0]],
        [pathname |-> PagePath, headers |-> <<>>, body |-> QuoteBody]}

\* The configurations drawn for process.env with a limiter in use.
GateEnvs ==
  {[NO_RATE_LIMIT_IPS |-> Unset, ALLOWED_ORIGINS |-> Unset],
   [NO_RATE_LIMIT_IPS |-> Set(<<"x", ",", " ", "a">>),
    ALLOWED_ORIGINS |-> Set(<<"A", ",", "B">>)]}

\* The time that passes between the check and the read of line 22.
HeaderDelays == {0, 500} \cup {i * TickMs : i \in 1..MaxTicks}

\* The checks of the limiter a behaviour of the gate makes.
GateChecks == maxRequests + 1

\* A request arrives: the middleware runs on the paths its matcher names,
\* and any other request goes on to its route. The clock is read a second
\* time only inside the limiter, and a third time only for a rejection.
consults(request, env) ==
  /\ matcher(request.pathname)
  /\ startsWith(request.pathname, PublicPrefix)
  /\ ~includes(noRateLimitIpsOf(env.NO_RATE_LIMIT_IPS), getClientIP(request.headers))

gate(st, lastPass, nowC, now, headerNow, request, env) ==
  IF matcher(request.pathname)
  THEN middleware(st, lastPass, nowC, now, headerNow, request, env)
  ELSE [clientIP |-> <<>>, checks |-> <<>>, originChecked |-> FALSE,
        lastGlobalCleanup |-> lastPass, store |-> st, response |-> next]

receive(request, env) ==
  LET consulted == consults(request, env)
  IN /\ consulted => SumLen(log, Identifiers) < GateChecks
     /\ \E d \in IF consulted THEN Drift ELSE {0} :
        \E m0 \in {gate(store, lastGlobalCleanup, clock, clock + d, clock + d, request, env)} :
        \E e \in IF m0.response.status = 429 THEN HeaderDelays ELSE {0} :
        \E m \in {IF e = 0 THEN m0
                  ELSE gate(store, lastGlobalCleanup, clock, clock + d, clock + d + e,
                            request, env)} :
          /\ clock + d + e <= MaxClock
          /\ clock' = clock + d + e
          /\ lastGlobalCleanup' = m.lastGlobalCleanup
          /\ store' = m.store
          /\ passes' = IF consulted /\ m.checks[1].ran THEN Append(passes, clock) ELSE passes
          /\ log' = IF consulted
                    THEN [log EXCEPT ![m.clientIP] =
                            Append(@, [now |-> clock + d] @@ m.checks[1].result)]
                    ELSE log
          /\ call' = [op |-> "middleware", request |-> request, env |-> env,
                      nowC |-> clock, now |-> clock + d, headerNow |-> clock + d + e,
                      invoked |-> matcher(request.pathname),
                      clientIP |-> m.clientIP,
                      checks |-> [i \in DOMAIN m.checks |->
                                    [bypassed |-> m.checks[i].bypassed,
                                     result |-> m.checks[i].result]],
                      originChecked |-> m.originChecked,
                      response |-> m.response]

\* (variant: the handler runs whatever the middleware answered)
route_unguarded ==
  /\ call.op = "middleware"
  /\ call.request.pathname \in {PublicCalculatePath, CalculatePath}
  /\ LET h == IF call.request.pathname = PublicCalculatePath
              THEN publicPOST(call.request.body)
              ELSE internalPOST(call.request.body)
     IN call' = [op |-> "route", request |-> call.request, gate |-> call,
                 calculated |-> h.calculated,
                 returned |-> [h.response EXCEPT !.headers = call.response.headers @@ @]]
  /\ UNCHANGED <<clock, store, lastGlobalCleanup, log, passes>>

\* The request the gate let through reaches its handler, whose answer
\* is returned with the headers the middleware set.
route ==
  /\ call.op = "middleware"
  /\ call.response.body = next.body
  /\ call.request.pathname \in {PublicCalculatePath, CalculatePath}
  /\ LET h == IF call.request.pathname = PublicCalculatePath
              THEN publicPOST(call.request.body)
              ELSE internalPOST(call.request.body)
     IN call' = [op |-> "route", request |-> call.request, gate |-> call,
                 calculated |-> h.calculated,
                 returned |-> [h.response EXCEPT !.headers = call.response.headers @@ @]]
  /\ UNCHANGED <<clock, store, lastGlobalCleanup, log, passes>>

GateNext ==
  \/ \E request \in GateRequests, env \in GateEnvs : receive(request, env)
  \/ route
  \/ Tick

GateSpec == Init /\ [][GateNext]_vars

\* One request to a non-public API path is received and, when the origin
\* check lets it through, handled.
OriginNext ==
  \/ call.op = "none" /\ \E request \in OriginRequests, env \in OriginEnvs :
                           receive(request, env)
  \/ route

OriginSpec == Init /\ [][OriginNext]_vars

\* ------------------------------------------------------ the public surface
\* stations/route.ts lines 5-9, openapi/route.ts lines 5-9
getCorsHeaders == [corsHeaders EXCEPT !["Access-Control-Allow-Methods"] = "GET, OPTIONS"]

\* part_005 lines 15-17, stations/route.ts lines 15-17, openapi/route.ts
\* lines 11-13: OPTIONS, the preflight answer with the route's CORS headers
OPTIONS(headers) == [status |-> 200, body |-> [null |-> TRUE], headers |-> headers]

\* stations/route.ts lines 25-27: GET /api/public/stations
stationsGET == [status |-> 200, body |-> stations, headers |-> getCorsHeaders]

\* What openapi/route.ts finds at public/openapi.json.
SchemaFiles == {"missing", "schema", "unparsable"}

\* openapi/route.ts lines 15-53: GET /api/public/openapi (the 404 message is
\* cut after its first sentence)
openapiGET(file) ==
  IF file = "missing"
  THEN [status |-> 404,
        body |-> [error |-> "OpenAPI schema not found",
                  message |-> "OpenAPI documentation has not been generated yet.",
                  statusCode |-> 404],
        headers |-> getCorsHeaders]
  ELSE IF file = "schema"
  THEN [status |-> 200, body |-> [openapiSchema |-> TRUE],
        headers |-> [name \in DOMAIN getCorsHeaders \cup {"Content-Type"} |->
                       IF name = "Content-Type" THEN "application/json"
                       ELSE getCorsHeaders[name]]]
  ELSE [status |-> 500,
        body |-> [error |-> "Internal Server Error",
                  message |-> "Failed to load OpenAPI schema",
                  statusCode |-> 500],
        headers |-> getCorsHeaders]

StationsPath == <<"/api", "/public", "/stations">>
OpenapiPath == <<"/api", "/public", "/openapi">>

\* The requests of one client drawn for the public surface: calculations
\* the handler refuses (a volume of 0) or fails on (a body that is no
\* JSON), a preflight, and the two GET routes.
SurfaceRequests ==
  {[method |-> "POST", pathname |-> PublicCalculatePath,
    headers |-> [n \in {"x-forwarded-for"} |-> <<"a">>],
    body |-> [QuoteBody EXCEPT !.volume = 0]],
   [method |-> "POST", pathname |-> PublicCalculatePath,
    headers |-> [n \in {"x-forwarded-for"} |-> <<"a">>], body |-> MalformedBody],
   [method |-> "OPTIONS", pathname |-> PublicCalculatePath,
    headers |-> [n \in {"x-forwarded-for"} |-> <<"a">>]],
   [method |-> "GET", pathname |-> StationsPath,
    headers |-> [n \in {"x-forwarded-for"} |-> <<"a">>]],
   [method |-> "GET", pathname |-> OpenapiPath,
    headers |-> [n \in {"x-forwarded-for"} |-> <<"a">>]]}

SurfaceEnv == [NO_RATE_LIMIT_IPS |-> Unset, ALLOWED_ORIGINS |-> Unset]

\* (variant: a request its handler answers with an error is not counted)
serve_refundsErrors(file) ==
  /\ call.op = "middleware"
  /\ call.response.body = next.body
  /\ LET request == call.request
         response == IF request.method = "OPTIONS"
                     THEN OPTIONS(IF request.pathname = PublicCalculatePath
                                  THEN corsHeaders ELSE getCorsHeaders)
                     ELSE IF request.pathname = PublicCalculatePath
                     THEN publicPOST(request.body).response
                     ELSE IF request.pathname = StationsPath
                     THEN stationsGET
                     ELSE openapiGET(file)
     IN /\ call' = [op |-> "route", request |-> request, gate |-> call,
                    returned |-> [response EXCEPT !.headers = call.response.headers @@ @]]
        /\ store' = IF response.status >= 400
                    THEN [store EXCEPT ![call.clientIP].requests = SubSeq(@, 1, Len(@) - 1)]
                    ELSE store
  /\ UNCHANGED <<clock, lastGlobalCleanup, log, passes>>

\* The request the gate let through reaches the handler its route exports
\* for its method; the answer is returned with the headers the middleware
\* set.
serve(file) ==
  /\ call.op = "middleware"
  /\ call.response.body = next.body
  /\ LET request == call.request
         response == IF request.method = "OPTIONS"
                     THEN OPTIONS(IF request.pathname = PublicCalculatePath
                                  THEN corsHeaders ELSE getCorsHeaders)
                     ELSE IF request.pathname = PublicCalculatePath
                     THEN publicPOST(request.body).response
                     ELSE IF request.pathname = StationsPath
                     THEN stationsGET
                     ELSE openapiGET(file)
     IN call' = [op |-> "route", request |-> request, gate |-> call,
                 returned |-> [response EXCEPT !.headers = call.response.headers @@ @]]
  /\ UNCHANGED <<clock, store, lastGlobalCleanup, log, passes>>

SurfaceNext ==
  \/ \E request \in SurfaceRequests : receive(request, SurfaceEnv)
  \/ \E file \in SchemaFiles : serve(file)
  \/ Tick

SurfaceSpec == Init /\ [][SurfaceNext]_vars

\* ------------------------------------------------------------ properties
\* The last operation was a checkRateLimit.
Checked == call.op = "check"

\* This step is a checkRateLimit call (every call appends to its identifier's log).
CheckStep == call'.op = "check" /\ log' # log

\* The timestamps of a sequence that are newer than t, in order.
Newer(requests, t) == SelectSeq(requests, LAMBDA timestamp : timestamp > t)

\* The stored timestamps of an identifier (none when it has no entry).
RequestsOf(st, identifier) == IF identifier \in DOMAIN st THEN st[identifier].requests ELSE <<>>

\* The times the clock can show.
Times == {i * TickMs : i \in 0..MaxTicks}

\* The number of checks of a log that were admitted at a time in (t - windowMs, t].
AdmittedIn(L, t) ==
  Cardinality({k \in 1..Len(L) : L[k].allowed /\ t - windowMs < L[k].now /\ L[k].now <= t})

\* C1: for an identifier without history, the k-th check made less than
\* windowMs after the first is allowed with remaining = maxRequests - k for
\* k = 1..maxRequests, and rejected for k = maxRequests + 1.
C1_BurstUpToQuota ==
  \A identifier \in Identifiers :
    LET L == log[identifier]
    IN \A k \in 1..Len(L) :
         L[k].now < L[1].now + windowMs =>
           /\ k <= maxRequests => L[k].allowed /\ L[k].remaining = maxRequests - k
           /\ k = maxRequests + 1 => ~L[k].allowed

C1_Witness ==
  \E identifier \in Identifiers :
    LET L == log[identifier]
    IN /\ Len(L) = maxRequests + 1
       /\ L[1].now < L[maxRequests + 1].now
       /\ L[maxRequests + 1].now < L[1].now + windowMs
       /\ ~L[maxRequests + 1].allowed

\* C2: for every identifier and every time t, at most maxRequests checks were
\* admitted at a time in (t - windowMs, t].
C2_SlidingQuota ==
  \A identifier \in Identifiers : \A t \in Times :
    AdmittedIn(log[identifier], t) <= maxRequests

\* A full window followed, after expiry, by further admissions.
C2_Witness ==
  \E identifier \in Identifiers : \E t \in Times :
    /\ AdmittedIn(log[identifier], t) = maxRequests
    /\ \E k \in 1..Len(log[identifier]) :
         log[identifier][k].allowed /\ log[identifier][k].now >= t + TickMs
    /\ \E k \in 1..Len(log[identifier]) :
         ~log[identifier][k].allowed

\* C3 as stated: a check made strictly after the reset time R of an earlier
\* rejected check of the same identifier is allowed.
C3_AnyLaterCheckAllowed ==
  \A identifier \in Identifiers :
    LET L == log[identifier]
    IN \A i \in 1..Len(L) : \A j \in (i + 1)..Len(L) :
         (~L[i].allowed /\ L[j].now > L[i].resetTime) => L[j].allowed

\* C3 (amended): a check made strictly after the reset time R of an earlier
\* rejected check of the same identifier is allowed, provided no check of that
\* identifier was admitted between the two.
C3_AllowedAfterReset ==
  \A identifier \in Identifiers :
    LET L == log[identifier]
    IN \A i \in 1..Len(L) : \A j \in (i + 1)..Len(L) :
         ( /\ ~L[i].allowed
           /\ L[j].now > L[i].resetTime
           /\ \A m \in (i + 1)..(j - 1) : ~L[m].allowed ) => L[j].allowed

C3_Witness ==
  \E identifier \in Identifiers :
    LET L == log[identifier]
    IN \E i \in 1..Len(L) : \E j \in (i + 1)..Len(L) :
         /\ ~L[i].allowed
         /\ L[j].now > L[i].resetTime
         /\ \A m \in (i + 1)..(j - 1) : ~L[m].allowed
         /\ L[j].allowed

\* C4: every returned result has remaining >= 0, and remaining <= limit - 1
\* when it is allowed.
C4_RemainingRange ==
  /\ Checked =>
       /\ call.returned.remaining >= 0
       /\ call.returned.allowed => call.returned.remaining <= call.returned.limit - 1
  /\ \A identifier \in Identifiers : \A k \in 1..Len(log[identifier]) :
       /\ log[identifier][k].remaining >= 0
       /\ log[identifier][k].allowed =>
            log[identifier][k].remaining <= log[identifier][k].limit - 1

\* An allowed result at the upper end of the range, and a rejected one before it.
C4_Witness ==
  /\ Checked
  /\ call.returned.allowed
  /\ call.returned.remaining = call.returned.limit - 1
  /\ \E k \in 1..Len(log[call.id]) : ~log[call.id][k].allowed

\* C5: with count the number of the identifier's timestamps stored before the
\* call that are newer than now - windowMs: allowed <=> count < maxRequests,
\* remaining = max(0, maxRequests - count) - 1 when allowed and
\* max(0, maxRequests - count) = 0 when rejected, limit = maxRequests.
C5_ResultFromCount ==
  [][CheckStep =>
       LET before == RequestsOf(store, call'.id)
           count == Cardinality({i \in 1..Len(before) : before[i] > call'.now - windowMs})
           r == call'.returned
       IN /\ r.allowed <=> count < maxRequests
          /\ r.allowed => r.remaining = Max(0, maxRequests - count) - 1
          /\ ~r.allowed => r.remaining = Max(0, maxRequests - count) /\ r.remaining = 0
          /\ r.limit = maxRequests]_vars

\* An allowed check into a window that still holds an earlier request while an
\* older one has expired.
C5_Witness ==
  /\ Checked
  /\ call.returned.allowed
  /\ call.returned.remaining = maxRequests - 2
  /\ Len(log[call.id]) > maxRequests + 1

\* C6: a rejected check leaves the identifier with exactly the in-window
\* timestamps it had before the call, in order; an allowed check leaves it
\* with these followed by now.
C6_RejectedNotRecorded ==
  [][CheckStep =>
       LET inWindow == Newer(RequestsOf(store, call'.id), call'.now - windowMs)
           after == RequestsOf(store', call'.id)
       IN IF call'.returned.allowed
          THEN after = Append(inWindow, call'.now)
          ELSE after = inWindow]_vars

\* A rejected check that comes after an earlier rejected check.
C6_Witness ==
  /\ Checked
  /\ ~call.returned.allowed
  /\ Len(store[call.id].requests) = maxRequests
  /\ Len(log[call.id]) = maxRequests + 2

\* C7: the returned resetTime is the oldest timestamp stored for the identifier
\* after the call plus windowMs; for an empty window it is now + windowMs.
C7_ResetTime ==
  /\ Checked =>
       LET after == RequestsOf(store, call.id)
       IN IF Len(after) > 0
          THEN call.returned.resetTime = SeqMin(after) + windowMs
          ELSE call.returned.resetTime = call.now + windowMs
  /\ resetTimeOf(<<>>, clock) = clock + windowMs

\* The window holds requests of different times and the oldest is not the one just admitted.
C7_Witness ==
  /\ Checked
  /\ Len(store[call.id].requests) = maxRequests
  /\ store[call.id].requests[1] < call.now
  /\ call.returned.resetTime < call.now + windowMs

\* C8 as stated: at every inspection, a check of the identifier or a getStats,
\* the inspected entries hold only timestamps within [now - windowMs, now].
C8_InspectedWithinWindow ==
  /\ Checked =>
       \A i \in 1..Len(RequestsOf(store, call.id)) :
         /\ store[call.id].requests[i] >= call.now - windowMs
         /\ store[call.id].requests[i] <= call.now
  /\ (call.op = "getStats" /\ call.now = clock) =>
       \A key \in DOMAIN store : \A i \in 1..Len(store[key].requests) :
         /\ store[key].requests[i] >= clock - windowMs
         /\ store[key].requests[i] <= clock

\* C8 (amended): after a checkRateLimit the entry of the checked identifier
\* holds only timestamps within (now - windowMs, now], hence within
\* [now - windowMs, now]; no stored timestamp is ever later than the clock;
\* getStats counts the entries as they are stored.
C8_CheckedWithinWindow ==
  /\ Checked =>
       \A i \in 1..Len(RequestsOf(store, call.id)) :
         /\ store[call.id].requests[i] > call.now - windowMs
         /\ store[call.id].requests[i] <= call.now
  /\ \A key \in DOMAIN store : \A i \in 1..Len(store[key].requests) :
       store[key].requests[i] <= clock
  /\ call.op = "getStats" =>
       /\ call.returned.totalKeys = Cardinality(DOMAIN store)
       /\ call.returned.totalRequests = totalRequestsOf(store)

\* A check without a cleanup pass, of an identifier one of whose earlier
\* admitted requests has left the window while a later one is still in it.
C8_Witness ==
  /\ Checked
  /\ ~call.ran
  /\ Len(store[call.id].requests) = 2
  /\ \E k \in 1..Len(log[call.id]) :
       log[call.id][k].allowed /\ log[call.id][k].now <= call.now - windowMs

\* C9: a cleanup pass leaves, of every entry, exactly the timestamps newer than
\* its now - windowMs, and deletes the entries left empty; the entries of the
\* identifiers other than the checked one are stored that way after the call,
\* and getStats().totalKeys is the number of stored entries.
C9_CleanupPass ==
  [][(CheckStep /\ call'.ran) =>
       LET cleaned == call'.afterCleanup
       IN /\ DOMAIN cleaned \subseteq DOMAIN store
          /\ \A key \in DOMAIN store :
               LET inWindow == Newer(store[key].requests, call'.nowC - windowMs)
               IN IF Len(inWindow) = 0
                  THEN key \notin DOMAIN cleaned
                  ELSE key \in DOMAIN cleaned /\ cleaned[key].requests = inWindow
          /\ \A key \in Identifiers \ {call'.id} :
               /\ key \in DOMAIN store' <=> key \in DOMAIN cleaned
               /\ key \in DOMAIN cleaned => store'[key] = cleaned[key]]_vars
  /\ [](call.op = "getStats" => call.returned.totalKeys = Cardinality(DOMAIN store))

\* A pass that deleted the entry of another identifier and kept part of the
\* checked identifier's timestamps.
C9_Witness ==
  /\ Checked
  /\ call.ran
  /\ \E key \in Identifiers \ {call.id} :
       log[key] # <<>> /\ key \notin DOMAIN call.afterCleanup /\ key \notin DOMAIN store
  /\ call.id \in DOMAIN call.afterCleanup
  /\ Len(call.afterCleanup[call.id].requests) = 1
  /\ Len(log[call.id]) = 3

\* C10: every global cleanup pass runs at least cleanupInterval after the
\* previous one, or after construction (time 0) for the first; a call runs a
\* pass only when now - lastGlobalCleanup >= cleanupInterval and the pass sets
\* lastGlobalCleanup to its now; every call filters the checked identifier's
\* window, with or without a pass.
C10_CleanupSpacing ==
  /\ \A i \in 1..Len(passes) :
       passes[i] - (IF i = 1 THEN 0 ELSE passes[i - 1]) >= cleanupInterval
  /\ lastGlobalCleanup = (IF Len(passes) = 0 THEN 0 ELSE passes[Len(passes)])
  /\ (Checked /\ call.ran) => Len(passes) > 0 /\ lastGlobalCleanup = call.nowC
  /\ Checked =>
       \A i \in 1..Len(RequestsOf(store, call.id)) :
         store[call.id].requests[i] > call.now - windowMs

\* The second pass has just run, after checks that ran none.
C10_Witness ==
  /\ Len(passes) = 2
  /\ Checked
  /\ call.ran
  /\ call.nowC = passes[2]
  /\ \E identifier \in Identifiers : \E k \in 1..Len(log[identifier]) :
       passes[1] < log[identifier][k].now /\ log[identifier][k].now < passes[2]

\* This step is a reset call.
ResetStep == call'.op = "reset" /\ call' # call

\* C11: the first check of an identifier after its reset (or after
\* construction) is allowed with remaining = maxRequests - 1 and
\* resetTime = now + windowMs; a reset step removes the identifier's entry,
\* leaves the entries of the other identifiers and lastGlobalCleanup as they
\* were, and changes nothing of the store when the identifier is unknown.
C11_ResetClearsOne ==
  /\ [](\A identifier \in Identifiers :
          Len(log[identifier]) > 0 =>
            /\ log[identifier][1].allowed
            /\ log[identifier][1].remaining = maxRequests - 1
            /\ log[identifier][1].resetTime = log[identifier][1].now + windowMs)
  /\ [][ResetStep =>
          /\ call'.id \notin DOMAIN store'
          /\ DOMAIN store' = DOMAIN store \ {call'.id}
          /\ \A key \in DOMAIN store' : store'[key] = store[key]
          /\ call'.id \notin DOMAIN store => store' = store
          /\ lastGlobalCleanup' = lastGlobalCleanup
          /\ clock' = clock /\ passes' = passes]_vars

\* The only cleanup pass was triggered by a check that the log of the checked
\* identifier no longer holds (the other identifier's log is complete and has
\* no check at that time): the identifier was reset since, and this is its
\* first check after the reset, made while the earlier request would still
\* be in its window.
C11_Witness ==
  /\ Checked
  /\ ~call.ran
  /\ Len(passes) = 1
  /\ Len(log[call.id]) = 1
  /\ \E other \in Identifiers \ {call.id} :
       /\ Len(log[other]) > 0
       /\ log[other][1].now < passes[1]
       /\ \A k \in 1..Len(log[other]) :
            log[other][k].now # passes[1] /\ log[other][k].now # passes[1] + TickMs

\* r is s without its leading and trailing spaces.
IsTrimOf(r, s) ==
  /\ Len(r) > 0 => r[1] # " " /\ r[Len(r)] # " "
  /\ \E i \in 0..Len(s) : \E j \in 0..Len(s) :
       /\ i + Len(r) + j = Len(s)
       /\ \A k \in 1..i : s[k] = " "
       /\ \A k \in 1..Len(r) : s[i + k] = r[k]
       /\ \A k \in 1..j : s[i + Len(r) + k] = " "

\* e is the part of s before its first comma (all of s when it has none).
IsFirstEntryOf(e, s) ==
  /\ Len(e) <= Len(s)
  /\ \A k \in 1..Len(e) : s[k] = e[k] /\ e[k] # ","
  /\ Len(e) = Len(s) \/ s[Len(e) + 1] = ","

\* r is the trimmed first comma-separated entry of s.
IsTrimmedFirstEntryOf(r, s) ==
  \E k \in 0..Len(s) : IsFirstEntryOf(SubSeq(s, 1, k), s) /\ IsTrimOf(r, SubSeq(s, 1, k))

\* The identifier the priority order gives when `counts` says which headers count.
ResolvedBy(counts(_), headers, r) ==
  IF counts("x-forwarded-for") THEN IsTrimmedFirstEntryOf(r, headers["x-forwarded-for"])
  ELSE IF counts("x-real-ip") THEN IsTrimOf(r, headers["x-real-ip"])
  ELSE IF counts("cf-connecting-ip") THEN IsTrimOf(r, headers["cf-connecting-ip"])
  ELSE r = <<"127.0.0.1">>

\* C13 as stated: the first header of the priority order that is present
\* decides (x-forwarded-for: its trimmed first entry; x-real-ip and
\* cf-connecting-ip: the trimmed value; none: 127.0.0.1).
C13_PresentHeaderDecides ==
  call.op = "getClientIP" =>
    LET Present(name) == name \in DOMAIN call.headers
    IN ResolvedBy(Present, call.headers, call.returned)

\* C13 (amended): the first header of the priority order that is present
\* with a non-empty value decides; a header present with the empty value is
\* passed over like an absent one.
C13_NonEmptyHeaderDecides ==
  call.op = "getClientIP" =>
    LET NonEmpty(name) == name \in DOMAIN call.headers /\ Len(call.headers[name]) > 0
    IN ResolvedBy(NonEmpty, call.headers, call.returned)

\* x-forwarded-for with padding and a second entry wins over the two other headers.
C13_Witness ==
  /\ call.op = "getClientIP"
  /\ DOMAIN call.headers = {"x-forwarded-for", "x-real-ip", "cf-connecting-ip"}
  /\ call.headers["x-forwarded-for"] = <<" ", "x", ",">>
  /\ call.headers["x-real-ip"] = <<"r">>
  /\ call.returned = <<"x">>

\* The rate of the route table for an ordered pair of stations.
RateOf(pickup, destination) == priceMatrix[pickup][destination]

\* C19: every quote calculatePrice returns has basePrice = rate * volume,
\* collateralFee = 1% of the collateral, totalPrice = basePrice +
\* collateralFee and the request's volume and collateral; rate 300, volume
\* 1000 and collateral 1 000 000 ISK give 300 000, 10 000 and 310 000.
C19_Quote ==
  /\ (call.op = "calculatePrice" /\ call.returned.ok) =>
       LET q == call.returned.value
           r == call.request
       IN /\ q.basePrice = RateOf(r.pickupStationId, r.destinationStationId) * r.volume
          /\ q.collateralFee = r.collateral   \* ISK of fee = units of 100 ISK of collateral
          /\ q.totalPrice = q.basePrice + q.collateralFee
          /\ q.volume = r.volume
          /\ q.collateral = r.collateral
  /\ LET q == calculatePrice([pickupStationId |-> "jita-iv-moon-4",
                              destinationStationId |-> "saminer",
                              volume |-> 1000, collateral |-> 10000])
     IN /\ q.ok
        /\ q.value.basePrice = 300000
        /\ q.value.collateralFee = 10000
        /\ q.value.totalPrice = 310000

\* The quote of the example.
C19_Witness ==
  /\ call.op = "calculatePrice"
  /\ call.returned.ok
  /\ RateOf(call.request.pickupStationId, call.request.destinationStationId) = 300
  /\ call.request.volume = 1000
  /\ call.request.collateral = 10000
  /\ call.returned.value.totalPrice = 310000

\* The stations of a request are listed and the table has a rate for them.
RouteKnown(r) ==
  /\ \E i \in 1..Len(stations) : stations[i].id = r.pickupStationId
  /\ \E i \in 1..Len(stations) : stations[i].id = r.destinationStationId
  /\ r.pickupStationId \in DOMAIN priceMatrix
  /\ r.destinationStationId \in DOMAIN priceMatrix[r.pickupStationId]

\* C20: a request with volume = 0, volume > maxVolume, collateral < 0 or
\* collateral > maxCollateral gets a PriceCalculationError and no result; a
\* quote is returned only for 0 < volume <= maxVolume and 0 <= collateral <=
\* maxCollateral; on a known route every volume and collateral within these
\* limits, the limits volume = maxVolume, collateral = 0 and collateral =
\* maxCollateral included, is accepted.
C20_RangeValidation ==
  call.op = "calculatePrice" =>
    LET r == call.request
        inRange == /\ 0 < r.volume /\ r.volume <= maxVolume
                   /\ 0 <= r.collateral /\ r.collateral <= maxCollateral
    IN /\ (r.volume = 0 \/ r.volume > maxVolume \/ r.collateral < 0 \/ r.collateral > maxCollateral) =>
            /\ ~call.returned.ok
            /\ call.returned.error = "PriceCalculationError"
            /\ "value" \notin DOMAIN call.returned
       /\ call.returned.ok => inRange
       /\ (RouteKnown(r) /\ inRange) => call.returned.ok

\* The largest volume with the largest collateral is accepted.
C20_Witness ==
  /\ call.op = "calculatePrice"
  /\ call.request.volume = maxVolume
  /\ call.request.collateral = maxCollateral
  /\ call.returned.ok
  /\ call.returned.value.volume = maxVolume

\* ------------------------------------------------------------------- C12
\* The last operation was the middleware answering a public request.
PublicCall == call.op = "middleware" /\ call.checks # <<>>

\* e is one of the comma-separated entries of s.
IsEntryOf(e, s) ==
  \E i \in 1..(Len(s) + 1) : \E j \in (i - 1)..Len(s) :
    /\ e = SubSeq(s, i, j)
    /\ \A k \in i..j : s[k] # ","
    /\ i = 1 \/ s[i - 1] = ","
    /\ j = Len(s) \/ s[j + 1] = ","

\* The identifier is in the allow-list the environment configures: it is
\* one of the comma-separated entries of NO_RATE_LIMIT_IPS, blanks around
\* the entry aside.
AllowListed(identifier, env) ==
  /\ env.set
  /\ \E i \in 1..(Len(env.value) + 1) : \E j \in (i - 1)..Len(env.value) :
       /\ IsEntryOf(SubSeq(env.value, i, j), env.value)
       /\ IsTrimOf(identifier, SubSeq(env.value, i, j))

\* C12: for an identifier in the no-rate-limit allow-list the exported
\* checkRateLimit returns allowed = true, limit = 10 and remaining = 9 on
\* every call, however many calls the identifier has made and however close
\* together they are.
C12_AllowListedAlwaysAllowed ==
  PublicCall /\ AllowListed(call.clientIP, call.env.NO_RATE_LIMIT_IPS)
    => /\ call.checks[1].result.allowed
       /\ call.checks[1].result.limit = 10
       /\ call.checks[1].result.remaining = 9

\* An allow-listed identifier is answered while the limiter holds a full
\* window of its earlier requests, the latest made at this very instant.
C12_Witness ==
  /\ PublicCall /\ AllowListed(call.clientIP, call.env.NO_RATE_LIMIT_IPS)
  /\ call.checks[1].result.allowed
  /\ Len(validRequests(RequestsOf(store, call.clientIP), call.now)) = maxRequests
  /\ \E i \in 1..Len(RequestsOf(store, call.clientIP)) :
       RequestsOf(store, call.clientIP)[i] = call.now

\* ------------------------------------------------------------------- C14
\* The last operation was the middleware answering 429.
Rejected == call.op = "middleware" /\ call.response.status = 429

\* C14 as stated: every 429 response of the middleware carries a
\* Retry-After equal to the ceiling of (resetTime - now) in seconds, now
\* being the moment the header is computed, and that value is never
\* negative, whatever time has passed since the rate-limit check.
C14_RetryAfterNeverNegative ==
  Rejected =>
    \E seconds \in 0..(windowMs \div 1000) :
      /\ call.response.headers["Retry-After"] = toString(seconds)
      /\ 1000 * (seconds - 1) < call.checks[1].result.resetTime - call.headerNow
      /\ call.checks[1].result.resetTime - call.headerNow <= 1000 * seconds

\* ------------------------------------------------------------------- C15
\* C15: every response to a request on a public-prefixed path carries
\* X-RateLimit-Limit, X-RateLimit-Remaining and X-RateLimit-Reset with the
\* values of the one rate-limit result computed for that request: the 429
\* response, which also carries Retry-After, and the forwarded response.
C15_RateLimitHeaders ==
  call.op = "middleware" /\ call.invoked /\ startsWith(call.request.pathname, PublicPrefix)
    => /\ Len(call.checks) = 1
       /\ call.response.status \in {200, 429}
       /\ call.response.status = 429 <=> ~call.checks[1].result.allowed
       /\ DOMAIN call.response.headers =
            {"X-RateLimit-Limit", "X-RateLimit-Remaining", "X-RateLimit-Reset"}
              \cup (IF call.response.status = 429 THEN {"Retry-After"} ELSE {})
       /\ call.response.headers["X-RateLimit-Limit"] = toString(call.checks[1].result.limit)
       /\ call.response.headers["X-RateLimit-Remaining"]
            = toString(call.checks[1].result.remaining)
       /\ call.response.headers["X-RateLimit-Reset"]
            = toString(call.checks[1].result.resetTime)

\* Both kinds of public response have been given: the last request was
\* rejected with 429 after an earlier one of the same client was forwarded.
C15_Witness ==
  /\ Rejected
  /\ \E i \in 1..Len(log[call.clientIP]) : log[call.clientIP][i].allowed
  /\ call.response.headers["X-RateLimit-Remaining"] = "0"
  /\ call.response.headers["X-RateLimit-Reset"] = toString(call.checks[1].result.resetTime)

\* ------------------------------------------------------------------- C16
\* A request is received and the middleware answers it.
ReceiveStep == call'.op = "middleware" /\ call' # call

\* The headers a rate-limited response carries.
RateLimitHeaders == {"X-RateLimit-Limit", "X-RateLimit-Remaining", "X-RateLimit-Reset"}

\* C16: the gate applies exactly one policy by path prefix. A path under
\* the public prefix is only rate-limited: checkRateLimit is called exactly
\* once, the answer follows its result and no origin check is made, so a
\* request no origin is allow-listed for is never answered 403. Any other
\* API path is only origin-checked: the limiter is not consulted and its
\* state does not change. Every other path passes through with neither
\* check.
C16_OnePolicyPerPrefix ==
  [][ReceiveStep =>
       LET pathname == call'.request.pathname
           untouched == /\ store' = store
                        /\ lastGlobalCleanup' = lastGlobalCleanup
                        /\ log' = log /\ passes' = passes /\ clock' = clock
       IN IF startsWith(pathname, PublicPrefix)
          THEN /\ Len(call'.checks) = 1
               /\ ~call'.originChecked
               /\ call'.response.status = (IF call'.checks[1].result.allowed THEN 200 ELSE 429)
               /\ call'.response.body # forbidden.body
               /\ call'.checks[1].bypassed => untouched
               /\ ~call'.checks[1].bypassed =>
                    Len(log'[call'.clientIP]) = Len(log[call'.clientIP]) + 1
          ELSE IF startsWith(pathname, ApiPrefix)
          THEN /\ call'.checks = <<>>
               /\ call'.originChecked
               /\ call'.response \in {forbidden, next}
               /\ DOMAIN call'.response.headers \cap RateLimitHeaders = {}
               /\ untouched
          ELSE /\ call'.checks = <<>>
               /\ ~call'.originChecked
               /\ call'.response = next
               /\ untouched]_vars

\* With requests of a client stored in the limiter, a public request that
\* carries no allow-listed origin has been rejected by the limiter, and a
\* request to another API path is answered 403 next, the limiter as it was.
C16_Witness ==
  /\ call.op = "middleware" /\ call.originChecked /\ call.response = forbidden
  /\ call.checks = <<>>
  /\ \E identifier \in DOMAIN store :
       /\ Len(store[identifier].requests) = maxRequests
       /\ \E i \in 1..Len(log[identifier]) : ~log[identifier][i].allowed

\* ------------------------------------------------------------------- C17
\* The origins the configuration allow-lists: the comma-separated entries
\* of ALLOWED_ORIGINS that name an origin. Unset or blank, it lists none.
AllowListedOrigins(env) ==
  IF env.set
  THEN {e \in {SubSeq(env.value, i, j) :
                 i \in 1..(Len(env.value) + 1), j \in 0..Len(env.value)} :
          e # <<>> /\ IsEntryOf(e, env.value)}
  ELSE {}

\* s begins with p.
BeginsWith(s, p) == Len(p) <= Len(s) /\ \A k \in 1..Len(p) : s[k] = p[k]

\* C17 as stated: a request to a non-public API path is forwarded if and
\* only if its Origin header equals an allow-listed origin or its Referer
\* header starts with one; otherwise it is answered 403 'Forbidden' and
\* nothing else, whatever its body.
C17_ForwardedIffAllowListed ==
  call.op = "middleware" /\ call.originChecked =>
    LET headers == call.request.headers
        listed == AllowListedOrigins(call.env.ALLOWED_ORIGINS)
        matches == \/ "origin" \in DOMAIN headers /\ headers["origin"] \in listed
                   \/ /\ "referer" \in DOMAIN headers
                      /\ \E a \in listed : BeginsWith(headers["referer"], a)
    IN IF matches THEN call.response = next
       ELSE call.response = [status |-> 403, body |-> [text |-> "Forbidden"],
                             headers |-> <<>>]

\* ------------------------------------------------------------------- C18
\* A handler runs.
RouteStep == call'.op = "route" /\ call' # call

\* C18: the calculator is reached only through the gate. A handler runs,
\* and calculatePrice is called, only for the request the middleware has
\* just passed: on a public path after an allowed rate-limit result, on
\* another API path after a passed origin check. A request answered 429 or
\* 403 never reaches a handler, so with an invalid body it is answered 429
\* or 403 and not 400.
C18_CalculatorBehindGate ==
  [][/\ RouteStep =>
          /\ call.op = "middleware"
          /\ call'.gate = call /\ call'.request = call.request
          /\ call.response.status \notin {403, 429}
          /\ call.response.body = [next |-> TRUE]
          /\ IF startsWith(call.request.pathname, PublicPrefix)
             THEN Len(call.checks) = 1 /\ call.checks[1].result.allowed
             ELSE call.originChecked
                    /\ \/ get(call.request.headers, "origin")
                            \in AllowListedOrigins(call.env.ALLOWED_ORIGINS)
                       \/ \E a \in AllowListedOrigins(call.env.ALLOWED_ORIGINS) :
                            BeginsWith(get(call.request.headers, "referer"), a)
          /\ call'.calculated # <<>> =>
               call'.returned.status = (IF calculatePrice(call'.calculated[1]).ok
                                        THEN 200 ELSE 400)
     /\ call'.op = "middleware" /\ call'.checks # <<>> /\ ~call'.checks[1].result.allowed
          => call'.response.status = 429
     /\ call.op = "middleware" /\ call.response.status \in {403, 429}
          => ~RouteStep]_vars

\* A public request with a body the calculator would refuse is answered
\* 429 after earlier requests of the same client were let through.
C18_Witness ==
  /\ Rejected
  /\ ~calculatePrice(call.request.body).ok
  /\ \E i \in 1..Len(log[call.clientIP]) : log[call.clientIP][i].allowed

\* ------------------------------------------------------------------- C21
\* The station table lists the id.
Listed(stationId) == \E i \in 1..Len(stations) : stations[i].id = stationId

\* The price matrix has a rate for the ordered pair.
Rated(pickup, destination) ==
  \E from \in DOMAIN priceMatrix :
    from = pickup /\ \E to \in DOMAIN priceMatrix[from] : to = destination

\* C21: calculatePrice throws a PriceCalculationError whenever the pickup
\* or the destination station id is not in the station table or the price
\* matrix has no rate for the ordered pair; it returns a quote only when
\* both stations are listed and the pair has a rate.
C21_RouteValidation ==
  call.op = "calculatePrice" =>
    LET r == call.request
        routeKnown == /\ Listed(r.pickupStationId)
                      /\ Listed(r.destinationStationId)
                      /\ Rated(r.pickupStationId, r.destinationStationId)
    IN /\ ~routeKnown =>
            /\ ~call.returned.ok
            /\ call.returned.error = "PriceCalculationError"
            /\ "value" \notin DOMAIN call.returned
       /\ call.returned.ok =>
            /\ routeKnown
            /\ call.returned.value.pickupStation
                 \in {stations[i].name : i \in {k \in 1..Len(stations) :
                                                   stations[k].id = r.pickupStationId}}
            /\ call.returned.value.destinationStation
                 \in {stations[i].name : i \in {k \in 1..Len(stations) :
                                                   stations[k].id = r.destinationStationId}}

\* Two listed stations, a volume and a collateral within the limits, and no
\* rate for the pair: the request is refused.
C21_Witness ==
  /\ call.op = "calculatePrice"
  /\ Listed(call.request.pickupStationId) /\ Listed(call.request.destinationStationId)
  /\ ~Rated(call.request.pickupStationId, call.request.destinationStationId)
  /\ call.request.volume = 1000 /\ call.request.collateral = 10000
  /\ ~call.returned.ok
  /\ call.returned.message = "Price route not available"

\* ------------------------------------------------------------------- C22
\* The stations of the table that are in the system.
InSystem(table, systemId) == {i \in 1..Len(table) : table[i].systemId = systemId}

\* C22: resolveStationFromSystemId returns a station id only when exactly
\* one station of the table has the systemId, and then that station's id;
\* with no station or more than one station in the system it throws a
\* PriceCalculationError.
C22_ExactlyOneStation ==
  call.op = "resolveStationFromSystemId" =>
    LET found == InSystem(call.table, call.systemId)
    IN IF Cardinality(found) = 1
       THEN /\ call.returned.ok
            /\ \A i \in found : call.returned.value = call.table[i].id
       ELSE /\ ~call.returned.ok
            /\ call.returned.error = "PriceCalculationError"
            /\ "value" \notin DOMAIN call.returned

\* A system with two stations has been asked for, and refused.
C22_Witness ==
  /\ call.op = "resolveStationFromSystemId"
  /\ Cardinality(InSystem(call.table, call.systemId)) = 2
  /\ ~call.returned.ok

\* ------------------------------------------------------------------- C28
\* The station ids a side of a public request may resolve to: the station
\* id when one is given, whatever system id comes with it; with a system id
\* alone, the id of the one station in that system; none otherwise. An
\* empty station id and a system id of 0 are not given.
SideResolvesTo(stationId, systemId) ==
  IF stationId # "" THEN {stationId}
  ELSE IF systemId # 0 /\ Cardinality(InSystem(stations, systemId)) = 1
  THEN {stations[i].id : i \in InSystem(stations, systemId)}
  ELSE {}

\* C28: resolvePublicCalculateRequest takes a station id or a system id
\* for each side independently: a given station id is used as is, even
\* when a system id comes with it, which is then neither resolved nor
\* validated; a system id alone is resolved as resolveStationFromSystemId
\* resolves it; with neither, a PriceCalculationError is thrown; volume and
\* collateral are passed through unchanged.
C28_EitherIdPerSide ==
  call.op = "resolvePublicCalculateRequest" =>
    LET r == call.request
        pickup == SideResolvesTo(r.pickupStationId, r.pickupSystemId)
        destination == SideResolvesTo(r.destinationStationId, r.destinationSystemId)
    IN IF pickup # {} /\ destination # {}
       THEN /\ call.returned.ok
            /\ DOMAIN call.returned.value
                 = {"pickupStationId", "destinationStationId", "volume", "collateral"}
            /\ call.returned.value.pickupStationId \in pickup
            /\ call.returned.value.destinationStationId \in destination
            /\ call.returned.value.volume = r.volume
            /\ call.returned.value.collateral = r.collateral
       ELSE /\ ~call.returned.ok
            /\ call.returned.error = "PriceCalculationError"

\* The pickup side carries a station id together with the id of a system
\* no station is in, the destination side a system id alone.
C28_Witness ==
  /\ call.op = "resolvePublicCalculateRequest"
  /\ call.request.pickupStationId = "jita-iv-moon-4" /\ call.request.pickupSystemId = 1
  /\ call.request.destinationStationId = "" /\ call.request.destinationSystemId = 30000142
  /\ call.returned.ok
  /\ call.returned.value.pickupStationId = "jita-iv-moon-4"
  /\ call.returned.value.destinationStationId = "jita-iv-moon-4"

\* ------------------------------------------------------------------- C23
\* The body is a request the calculator accepts: each side names, by its
\* station id or, on the public route, by a system id, a listed station,
\* the pair has a rate, and volume and collateral are within the limits.
ValidBody(handler, b) ==
  LET pickup == IF handler = "public"
                THEN SideResolvesTo(b.pickupStationId, b.pickupSystemId)
                ELSE {b.pickupStationId} \ {""}
      destination == IF handler = "public"
                     THEN SideResolvesTo(b.destinationStationId, b.destinationSystemId)
                     ELSE {b.destinationStationId} \ {""}
  IN /\ pickup # {} /\ destination # {}
     /\ \A p \in pickup : \A d \in destination : Listed(p) /\ Listed(d) /\ Rated(p, d)
     /\ 0 < b.volume /\ b.volume <= maxVolume
     /\ 0 <= b.collateral /\ b.collateral <= maxCollateral

\* C23: in both calculation handlers a validation failure (a bad station
\* id, a volume or collateral out of range, a system id that is missing or
\* resolves to no station) is a PriceCalculationError answered 400 with its
\* message; any other failure is answered 500 with a fixed message that is
\* not the text of the error; a success is answered 200.
C23_StatusMapping ==
  call.op = "POST" =>
    IF call.body \in {MalformedBody, NullBody}
    THEN /\ ~call.outcome.ok /\ call.outcome.error # "PriceCalculationError"
         /\ call.returned.status = 500
         /\ call.returned.body =
              [error |-> "Internal Server Error",
               message |-> "An unexpected error occurred while calculating the price",
               statusCode |-> 500]
         /\ call.returned.body.message # call.outcome.message
    ELSE IF ValidBody(call.handler, call.body)
    THEN /\ call.outcome.ok
         /\ call.returned.status = 200
         /\ call.returned.body = call.outcome.value
    ELSE /\ ~call.outcome.ok /\ call.outcome.error = "PriceCalculationError"
         /\ call.returned.status = 400
         /\ call.returned.body = [error |-> "Validation Error",
                                  message |-> call.outcome.message,
                                  statusCode |-> 400]
         /\ call.outcome.message # ""

\* The public handler has answered 500 to a body that is the JSON null,
\* whose error was a TypeError.
C23_Witness ==
  /\ call.op = "POST" /\ call.handler = "public" /\ call.body = NullBody
  /\ call.outcome.error = "TypeError"
  /\ call.returned.status = 500

\* ------------------------------------------------------------------- C24
\* The smaller of two numbers.
Min(x, y) == IF x <= y THEN x ELSE y

\* The checks of a log that were admitted.
Admitted(L) == {k \in 1..Len(L) : L[k].allowed}

\* C24: every checkRateLimit call runs to completion before the next one
\* starts, and no lock is needed. Of K requests of one identifier without
\* history that are handled at the same instant, in whatever order they and
\* the requests of other identifiers arrive, exactly min(K, maxRequests)
\* are admitted, the first ones; and no identifier is ever admitted more
\* than maxRequests times within windowMs.
C24_SerializedQuota ==
  \A identifier \in Identifiers :
    LET L == log[identifier]
    IN /\ (\A k \in 1..Len(L) : L[k].now = L[1].now) =>
            /\ Cardinality(Admitted(L)) = Min(Len(L), maxRequests)
            /\ Admitted(L) = 1..Min(Len(L), maxRequests)
       /\ \A i \in Admitted(L) :
            Cardinality({k \in Admitted(L) : k >= i /\ L[k].now < L[i].now + windowMs})
              <= maxRequests

\* Two identifiers have each sent more requests than the quota at the same
\* instant.
C24_Witness ==
  /\ \A identifier \in Identifiers :
       /\ Len(log[identifier]) = maxRequests + 1
       /\ \A k \in 1..Len(log[identifier]) : log[identifier][k].now = clock
       /\ ~log[identifier][maxRequests + 1].allowed
  /\ clock > 0

\* ------------------------------------------------------------------- C25
\* C25: the reset time of a rejection is exact. After a check of an
\* identifier was rejected with reset time R, and until the identifier is
\* reset, every later check of it at a time before R is rejected with the
\* same R, and the first check at a time >= R is allowed.
C25_ExactResetTime ==
  \A identifier \in Identifiers :
    LET L == log[identifier]
    IN \A i \in 1..Len(L) : \A j \in (i + 1)..Len(L) :
         ~L[i].allowed =>
           /\ L[j].now < L[i].resetTime =>
                ~L[j].allowed /\ L[j].resetTime = L[i].resetTime
           /\ (L[j].now >= L[i].resetTime
                 /\ \A k \in (i + 1)..(j - 1) : L[k].now < L[i].resetTime)
                => L[j].allowed

\* A rejection, a second rejection later but before the reset time, and an
\* admission at the reset time.
C25_Witness ==
  \E identifier \in Identifiers :
    LET L == log[identifier]
    IN \E i \in 1..Len(L) : \E j \in (i + 1)..Len(L) : \E k \in (j + 1)..Len(L) :
         /\ ~L[i].allowed
         /\ ~L[j].allowed /\ L[i].now < L[j].now /\ L[j].now < L[i].resetTime
         /\ L[k].allowed /\ L[k].now = L[i].resetTime

\* ------------------------------------------------------------------- C26
\* The exported checkRateLimit has answered an allow-listed identifier.
BypassStep == ReceiveStep /\ call'.checks # <<>> /\ call'.checks[1].bypassed

\* C26: the allow-list bypass skips the limiter. A call of the exported
\* checkRateLimit for an allow-listed identifier leaves the store and the
\* time of the last global cleanup as they were: no entry is created, no
\* timestamp recorded, no cleanup run; so whatever any other identifier is
\* answered next is what it would have been answered without the call.
C26_BypassLeavesLimiter ==
  [][BypassStep =>
       /\ store' = store
       /\ lastGlobalCleanup' = lastGlobalCleanup
       /\ passes' = passes
       /\ \A identifier \in Identifiers \ {call'.clientIP} :
            limiterCheck(store', lastGlobalCleanup', clock', clock', identifier).result
              = limiterCheck(store, lastGlobalCleanup, clock', clock', identifier).result]_vars

\* An allow-listed identifier is answered when a global cleanup is due and
\* another identifier's requests are stored: it has no entry, and the
\* cleanup has not run.
C26_Witness ==
  /\ PublicCall /\ call.checks[1].bypassed
  /\ call.clientIP \notin DOMAIN store
  /\ store # <<>>
  /\ cleanupDue(call.now, lastGlobalCleanup)

\* ------------------------------------------------------------------- C29
\* C29: between operations every entry of the store holds at least one and
\* at most maxRequests timestamps: no sequence of checkRateLimit calls (with
\* the cleanup passes they run) and resets leaves an empty entry or lets an
\* entry grow beyond maxRequests.
C29_EntrySizes ==
  /\ maxRequests >= 1
  /\ \A key \in DOMAIN store :
       /\ Len(store[key].requests) >= 1
       /\ Len(store[key].requests) <= maxRequests

\* A rejected check whose cleanup pass ran: the rejected identifier's entry
\* is full, and the other identifier, checked before and never reset since,
\* has lost its entry to the pass.
C29_Witness ==
  /\ Checked /\ call.ran /\ ~call.returned.allowed
  /\ Len(store[call.id].requests) = maxRequests
  /\ \E other \in Identifiers :
       other # call.id /\ log[other] # <<>> /\ other \notin DOMAIN store

\* ------------------------------------------------------------------- C27
\* The identifiers that were admitted by a check at a time in (t - span, t]
\* and not reset since.
ActiveWithin(span, t) ==
  {identifier \in Identifiers :
     \E k \in 1..Len(log[identifier]) :
       /\ log[identifier][k].allowed
       /\ t - span < log[identifier][k].now
       /\ log[identifier][k].now <= t}

\* C27: one-shot clients do not accumulate. An entry is gone after the
\* first global cleanup pass that runs when all its timestamps are at least
\* windowMs old: no stored entry has its newest timestamp windowMs or more
\* before a pass that has run. A pass runs with the first check made
\* cleanupInterval after the previous one, so that after every check the
\* stored keys are among the identifiers admitted within the last
\* windowMs + cleanupInterval before the check's cleanup read the clock, and
\* no more numerous than these.
C27_OneShotEntriesDeleted ==
  /\ \A key \in DOMAIN store :
       /\ Len(store[key].requests) > 0
       /\ \A i \in 1..Len(passes) :
            passes[i] - store[key].requests[Len(store[key].requests)] < windowMs
  /\ Checked =>
       /\ DOMAIN store \subseteq ActiveWithin(windowMs + cleanupInterval, call.now)
       /\ \A key \in DOMAIN store \ {call.id} :
            key \in ActiveWithin(windowMs + cleanupInterval, call.nowC)
       /\ Cardinality(DOMAIN store)
            <= Cardinality(ActiveWithin(windowMs + cleanupInterval, call.now))

\* An identifier made a request and stopped; the first pass after it came
\* before the request was windowMs old and kept the entry, the second pass
\* has just run with another identifier's check and the entry is gone.
C27_Witness ==
  /\ Checked /\ call.ran /\ Len(passes) >= 2
  /\ \E stopped \in Identifiers \ {call.id} :
       /\ stopped \notin DOMAIN store
       /\ Len(log[stopped]) > 0
       /\ LET last == log[stopped][Len(log[stopped])]
          IN /\ last.allowed
             /\ last.now <= passes[Len(passes) - 1]
             /\ passes[Len(passes) - 1] - last.now < windowMs
             /\ call.nowC - last.now >= windowMs

\* ------------------------------------------------------------------- C30
\* The store of a limiter that never runs the global cleanup, after the
\* first k checks of a history L of one identifier (made since construction
\* or since the identifier's last reset, which deletes its entry there too):
\* each check is checkRateLimit with cleanup() returning at line 28.
RECURSIVE neverCleaned(_, _, _)
neverCleaned(identifier, L, k) ==
  IF k = 0
  THEN <<>>
  ELSE limiterCheck(neverCleaned(identifier, L, k - 1),
                    L[k].now, L[k].now, L[k].now, identifier).store

\* C30: global cleanup is observationally transparent. Every check returns
\* exactly (allowed, limit, remaining, resetTime) what a limiter that never
\* runs the global cleanup returns for the same timed checks and resets;
\* the passes change only which entries are stored.
C30_CleanupTransparent ==
  \A identifier \in Identifiers :
    LET L == log[identifier]
    IN \A k \in 1..Len(L) :
         LET c == limiterCheck(neverCleaned(identifier, L, k - 1),
                               L[k].now, L[k].now, L[k].now, identifier)
         IN /\ ~c.ran
            /\ L[k].allowed = c.result.allowed
            /\ L[k].limit = c.result.limit
            /\ L[k].remaining = c.result.remaining
            /\ L[k].resetTime = c.result.resetTime

\* An identifier is checked again after a pass, run by another identifier's
\* check, deleted its entry; the limiter that never cleans still held the
\* expired timestamps of that entry before the check.
C30_Witness ==
  /\ Checked /\ ~call.ran
  /\ Len(log[call.id]) >= 2
  /\ LET L == log[call.id]
         previous == L[Len(L) - 1]
     IN /\ previous.allowed
        /\ \E i \in 1..Len(passes) : passes[i] - previous.now >= windowMs
        /\ call.id \in DOMAIN neverCleaned(call.id, L, Len(L) - 1)
        /\ store[call.id].requests # neverCleaned(call.id, L, Len(L) - 1)[call.id].requests

\* ------------------------------------------------------------------- C31
\* The times, in order, at which the checks 1..k-1 of a history L were
\* admitted within the window of check k.
OwnWindow(L, k) ==
  LET times == [j \in 1..(k - 1) |-> L[j]]
      counted == SelectSeq(times, LAMBDA r : r.allowed /\ r.now > L[k].now - windowMs)
  IN [j \in 1..Len(counted) |-> counted[j].now]

\* C31: identifiers are isolated. Every result returned for an identifier
\* is determined by the times of its own admitted checks since its last
\* reset (the count of those in the window, and the oldest of them),
\* whatever checks and resets of other identifiers came in between; and a
\* check or a reset of one identifier leaves the history and the in-window
\* timestamps of every other identifier as they were.
C31_IdentifiersIsolated ==
  /\ [](\A identifier \in Identifiers :
          LET L == log[identifier]
          IN \A k \in 1..Len(L) :
               LET own == OwnWindow(L, k)
               IN /\ L[k].allowed = (Len(own) < maxRequests)
                  /\ L[k].limit = maxRequests
                  /\ L[k].remaining = (IF Len(own) < maxRequests
                                       THEN maxRequests - Len(own) - 1 ELSE 0)
                  /\ L[k].resetTime = (IF Len(own) > 0 THEN own[1] ELSE L[k].now) + windowMs)
  /\ [][(CheckStep \/ ResetStep) =>
          \A other \in Identifiers \ {call'.id} :
            /\ log'[other] = log[other]
            /\ Newer(RequestsOf(store', other), call'.nowC - windowMs)
                 = Newer(RequestsOf(store, other), call'.nowC - windowMs)
            /\ ~call'.ran => RequestsOf(store', other) = RequestsOf(store, other)]_vars

\* An identifier is rejected on its own count while, between its first
\* admitted check and this one, another identifier was checked and a global
\* cleanup pass ran with that other identifier's check.
C31_Witness ==
  /\ Checked /\ ~call.returned.allowed /\ ~call.ran
  /\ \E other \in Identifiers \ {call.id} :
       \E j \in 1..Len(log[other]) : \E i \in 1..Len(passes) :
         /\ log[call.id][1].now < log[other][j].now
         /\ log[other][j].now <= call.now
         /\ passes[i] > log[call.id][1].now
         /\ passes[i] <= log[other][j].now

\* ------------------------------------------------------------------- C32
\* C32: every result checkRateLimit returns at time now, allowed or
\* rejected, has now < resetTime <= now + windowMs: the reset time is never
\* in the past when the check returns.
C32_ResetTimeAhead ==
  /\ windowMs > 0
  /\ \A identifier \in Identifiers :
       \A k \in 1..Len(log[identifier]) :
         LET r == log[identifier][k]
         IN r.now < r.resetTime /\ r.resetTime <= r.now + windowMs

\* A rejected check whose oldest counted request is one tick short of
\* windowMs old, after an allowed one that reported the same reset time,
\* and an allowed first check with resetTime = now + windowMs.
C32_Witness ==
  /\ Checked /\ ~call.returned.allowed
  /\ call.returned.resetTime = call.now + TickMs
  /\ LET L == log[call.id]
     IN /\ L[1].allowed /\ L[1].resetTime = L[1].now + windowMs
        /\ \E k \in 2..(Len(L) - 1) :
             L[k].allowed /\ L[k].resetTime = call.returned.resetTime /\ L[k].now > L[1].now

\* ------------------------------------------------------------------- C33
\* C33 as stated: when no origin is allow-listed (ALLOWED_ORIGINS unset or
\* set to the empty string), every request to a non-public API path is
\* answered 403 'Forbidden', whatever Origin and Referer headers it carries.
C33_NothingListedAllForbidden ==
  (/\ call.op = "middleware" /\ call.originChecked
   /\ call.env.ALLOWED_ORIGINS \in {Unset, Set(<<>>)})
    => call.response = [status |-> 403, body |-> [text |-> "Forbidden"], headers |-> <<>>]

\* ------------------------------------------------------------------- C34
\* C34 as stated: the route table is total over the configured stations.
\* The price matrix has a rate for every ordered pair of listed stations and
\* every key of the matrix is the id of a listed station, so calculatePrice
\* returns a quote for every pair of listed stations with an in-range
\* volume and collateral.
C34_RouteTableTotal ==
  call.op = "calculatePrice" =>
    LET r == call.request
        listed == Listed(r.pickupStationId) /\ Listed(r.destinationStationId)
    IN /\ listed => Rated(r.pickupStationId, r.destinationStationId)
       /\ Rated(r.pickupStationId, r.destinationStationId) => listed
       /\ (/\ listed
           /\ 0 < r.volume /\ r.volume <= maxVolume
           /\ 0 <= r.collateral /\ r.collateral <= maxCollateral)
            => call.returned.ok

\* ------------------------------------------------------------------- C35
\* C35: one quota per identifier is shared by the whole public surface.
\* Every request to a path under the public prefix, whatever its path and
\* method, is checked once against the quota of its client: it is admitted,
\* and its time recorded in the client's entry, while fewer than maxRequests
\* of the client's earlier public requests were admitted within the window,
\* and answered 429 otherwise. The recorded time is still in the entry when
\* the handler has answered, with a 400 or a 500 as with a 200.
C35_SharedPublicQuota ==
  /\ (call.op = "middleware" /\ startsWith(call.request.pathname, PublicPrefix)) =>
       LET L == log[call.clientIP]
           own == OwnWindow(L, Len(L))
       IN /\ Len(call.checks) = 1
          /\ Len(L) >= 1
          /\ L[Len(L)] = [now |-> call.now] @@ call.checks[1].result
          /\ IF Len(own) < maxRequests
             THEN /\ call.checks[1].result.allowed
                  /\ call.response.body = next.body
                  /\ store[call.clientIP].requests = Append(own, call.now)
             ELSE /\ ~call.checks[1].result.allowed
                  /\ call.response.status = 429
                  /\ store[call.clientIP].requests = own
  /\ (call.op = "route" /\ startsWith(call.request.pathname, PublicPrefix)) =>
       LET requests == RequestsOf(store, call.gate.clientIP)
           L == log[call.gate.clientIP]
       IN /\ call.gate.checks[1].result.allowed
          /\ Len(requests) >= 1 /\ requests[Len(requests)] = call.gate.now
          /\ L[Len(L)] = [now |-> call.gate.now] @@ call.gate.checks[1].result

\* A GET of the station table is answered 429: the quota was used up by two
\* earlier public requests, admitted at different times of the window.
C35_Witness ==
  /\ call.op = "middleware" /\ call.response.status = 429
  /\ call.request.method = "GET" /\ call.request.pathname = StationsPath
  /\ LET L == log[call.clientIP]
     IN /\ Len(L) = maxRequests + 1
        /\ \A k \in 1..maxRequests : L[k].allowed
        /\ L[1].now < L[maxRequests].now

\* ------------------------------------------------------------------- C36
\* C36: the timestamps of every entry are stored in non-decreasing order,
\* none of them later than the clock, so that the first one, from which
\* checkRateLimit computes resetTime, is the minimum of the stored
\* timestamps; the reset time a check returns is that minimum plus windowMs.
C36_TimestampsSorted ==
  /\ \A key \in DOMAIN store :
       LET requests == store[key].requests
       IN /\ \A i, j \in 1..Len(requests) : i <= j => requests[i] <= requests[j]
          /\ \A i \in 1..Len(requests) :
               requests[1] <= requests[i] /\ requests[i] <= clock
  /\ Checked =>
       \A i \in 1..Len(store[call.id].requests) :
         call.returned.resetTime <= store[call.id].requests[i] + windowMs

\* An entry holds maxRequests timestamps of different times, and a cleanup
\* pass has filtered it since its oldest one was recorded.
C36_Witness ==
  \E key \in DOMAIN store :
    LET requests == store[key].requests
    IN /\ Len(requests) = maxRequests
       /\ requests[1] < requests[Len(requests)]
       /\ store[key].lastCleanup > requests[1]

TypeOK ==
  /\ clock \in 0..MaxClock
  /\ DOMAIN store \subseteq Identifiers
  /\ lastGlobalCleanup \in 0..MaxClock
====
